---- MODULE Spec2Model ----
(***************************************************************************)
(* Browser scripts of the MLC site: the blog aggregator (BlogLoader,       *)
(* src/js/includes.js) and the repository statistics widget                *)
(* (GitHubStatsLoader, src/js/github-stats.js).                            *)
(*                                                                         *)
(* JavaScript strings are sequences of one-character strings, so that      *)
(* toLowerCase, replace, split, substring, padStart, includes and the      *)
(* regular expressions of the source are computed character by character. *)
(***************************************************************************)
EXTENDS Integers, Sequences, FiniteSets, TLC

\* ------------------------------------------------------------------------
\* Bounds of the model
\* ------------------------------------------------------------------------

\* Longest index page (list items) drawn from the detailed item universe.
MaxItems == 2

\* Longest index page made of plain, distinct posts (exercises the batches).
MaxPlainPosts == 12

\* Most post pages that fail on a plain index page.
MaxFailing == 1

\* Longest index page of the date-ordering specification.
MaxSortItems == 3

\* Longest index page of the scraping and enrichment specification.
MaxPostItems == 2

\* ------------------------------------------------------------------------
\* JavaScript values
\* ------------------------------------------------------------------------

\* null, told apart from every string (a string holds one-character strings)
NULL == <<"null">>

\* undefined: the value of a property an object does not have
UNDEFINED == <<"undefined">>

\* an Invalid Date, whose time value is NaN
InvalidDate == [valid |-> FALSE, y |-> 0, m |-> 0, d |-> 0]

\* ------------------------------------------------------------------------
\* Strings
\* ------------------------------------------------------------------------

UpperAlpha ==
    <<"A","B","C","D","E","F","G","H","I","J","K","L","M",
      "N","O","P","Q","R","S","T","U","V","W","X","Y","Z">>

LowerAlpha ==
    <<"a","b","c","d","e","f","g","h","i","j","k","l","m",
      "n","o","p","q","r","s","t","u","v","w","x","y","z">>

Digits == <<"0","1","2","3","4","5","6","7","8","9">>

IsDigit(c) == \E i \in 1..10 : Digits[i] = c

DigitVal(c) == (CHOOSE i \in 1..10 : Digits[i] = c) - 1

IsUpper(c) == \E i \in 1..26 : UpperAlpha[i] = c

\* \s of a JavaScript regular expression (the whitespace the inputs use)
IsSpace(c) == c = " "

\* String.prototype.toLowerCase
toLowerCase(s) ==
    LET LowerChar(c) ==
            IF IsUpper(c) THEN LowerAlpha[CHOOSE i \in 1..26 : UpperAlpha[i] = c] ELSE c
    IN  [i \in 1..Len(s) |-> LowerChar(s[i])]

\* String.prototype.substring(from, to), zero-based, to exclusive
substring(s, from, to) ==
    LET t == IF to > Len(s) THEN Len(s) ELSE to
    IN  IF from >= t THEN <<>> ELSE SubSeq(s, from + 1, t)

\* sub occurs in s at the one-based position i
OccursAt(s, sub, i) ==
    /\ i >= 1
    /\ i + Len(sub) - 1 <= Len(s)
    /\ \A k \in 1..Len(sub) : s[i + k - 1] = sub[k]

\* String.prototype.includes
includes(s, sub) == \E i \in 1..(Len(s) + 1) : OccursAt(s, sub, i)

\* String.prototype.startsWith
startsWith(s, sub) == OccursAt(s, sub, 1)

\* String.prototype.replace(c, '') with a one-character string pattern:
\* only the first occurrence is removed
replaceFirst(s, c) ==
    IF \E i \in 1..Len(s) : s[i] = c
    THEN LET i == CHOOSE j \in 1..Len(s) : s[j] = c /\ \A k \in 1..(j - 1) : s[k] # c
         IN  SubSeq(s, 1, i - 1) \o SubSeq(s, i + 1, Len(s))
    ELSE s

RECURSIVE SplitFrom(_, _)
\* the tokens of s from position i on, a token starting at i
SplitFrom(s, i) ==
    LET blanks == {j \in i..Len(s) : IsSpace(s[j])}
        j == CHOOSE b \in blanks : \A h \in blanks : b <= h
        others == {h \in j..Len(s) : ~IsSpace(s[h])}
        k == IF others = {} THEN Len(s) + 1
             ELSE CHOOSE o \in others : \A h \in others : o <= h
    IN  IF blanks = {} THEN <<SubSeq(s, i, Len(s))>>
        ELSE <<SubSeq(s, i, j - 1)>> \o SplitFrom(s, k)

\* String.prototype.split(/\s+/)
splitWhitespace(s) == SplitFrom(s, 1)

\* String.prototype.padStart(2, '0')
padStart2(s) ==
    IF Len(s) >= 2 THEN s ELSE IF Len(s) = 1 THEN <<"0">> \o s ELSE <<"0", "0">>

\* String.prototype.trim
RECURSIVE trim(_)
trim(s) ==
    IF s = <<>> THEN s
    ELSE IF IsSpace(s[1]) THEN trim(Tail(s))
    ELSE IF IsSpace(s[Len(s)]) THEN trim(SubSeq(s, 1, Len(s) - 1))
    ELSE s

AllDigits(s) == \A i \in 1..Len(s) : IsDigit(s[i])

RECURSIVE ToNumber(_)
\* the value of a string of decimal digits
ToNumber(s) ==
    IF s = <<>> THEN 0 ELSE 10 * ToNumber(SubSeq(s, 1, Len(s) - 1)) + DigitVal(s[Len(s)])

RECURSIVE ToDigits(_)
\* String(n) for a non-negative integer
ToDigits(n) ==
    IF n < 10 THEN <<Digits[n + 1]>> ELSE ToDigits(n \div 10) \o <<Digits[(n % 10) + 1]>>

\* /\d{4}/.test(s)
HasFourDigits(s) ==
    \E i \in 1..Len(s) : i + 3 <= Len(s) /\ \A k \in 0..3 : IsDigit(s[i + k])

\* /\w+\s+\d+,\s+\d{4}/.test(s)
LooksLikeMonthDayYear(s) ==
    LET IsLower(c) == \E i \in 1..26 : LowerAlpha[i] = c
        \* \w of a JavaScript regular expression
        IsWordChar(c) == IsUpper(c) \/ IsLower(c) \/ IsDigit(c) \/ c = "_"
    IN
    \E w \in 1..Len(s), d \in 1..Len(s), c \in 1..Len(s), y \in 1..Len(s) :
        /\ w < d /\ d <= c - 1 /\ c + 1 < y /\ y + 3 <= Len(s)
        /\ IsWordChar(s[w])
        /\ \A k \in (w + 1)..(d - 1) : IsSpace(s[k])
        /\ w + 1 <= d - 1
        /\ \A k \in d..(c - 1) : IsDigit(s[k])
        /\ s[c] = ","
        /\ \A k \in (c + 1)..(y - 1) : IsSpace(s[k])
        /\ \A k \in 0..3 : IsDigit(s[y + k])

\* ------------------------------------------------------------------------
\* Dates
\* ------------------------------------------------------------------------

MonthNames ==
    << <<"j","a","n","u","a","r","y">>,
       <<"f","e","b","r","u","a","r","y">>,
       <<"m","a","r","c","h">>,
       <<"a","p","r","i","l">>,
       <<"m","a","y">>,
       <<"j","u","n","e">>,
       <<"j","u","l","y">>,
       <<"a","u","g","u","s","t">>,
       <<"s","e","p","t","e","m","b","e","r">>,
       <<"o","c","t","o","b","e","r">>,
       <<"n","o","v","e","m","b","e","r">>,
       <<"d","e","c","e","m","b","e","r">> >>

\* the month a word names to the engine's date parser (its full name or an
\* abbreviation of three letters or more), 0 when it names none
MonthOfWord(w) ==
    LET lw == toLowerCase(w)
        hit(i) == Len(lw) >= 3 /\ startsWith(MonthNames[i], lw)
    IN  IF \E i \in 1..12 : hit(i) THEN CHOOSE i \in 1..12 : hit(i) ELSE 0

IsLeapYear(y) == (y % 4 = 0 /\ y % 100 # 0) \/ y % 400 = 0

DaysInMonth(y, m) ==
    IF m = 2 THEN (IF IsLeapYear(y) THEN 29 ELSE 28)
    ELSE IF m \in {4, 6, 9, 11} THEN 30 ELSE 31

\* the day number of a calendar date, counted from 1970-01-01: the time
\* value of the date at midnight, in days
DayNumber(y, m, d) ==
    LET DaysBeforeMonth == <<0, 31, 59, 90, 120, 151, 181, 212, 243, 273, 304, 334>>
        LeapDaysThrough(x) == (x \div 4) - (x \div 100) + (x \div 400)
    IN
    365 * (y - 1970) + (LeapDaysThrough(y - 1) - LeapDaysThrough(1969))
      + DaysBeforeMonth[m] + (IF m > 2 /\ IsLeapYear(y) THEN 1 ELSE 0) + (d - 1)

\* s has the shape YYYY-MM-DD of the ECMAScript date-time string format
IsIsoShape(s) ==
    /\ Len(s) = 10
    /\ s[5] = "-" /\ s[8] = "-"
    /\ \A i \in {1, 2, 3, 4, 6, 7, 9, 10} : IsDigit(s[i])

\* new Date(s) for a date-only ISO string: the calendar date, or Invalid Date
ParseIso(s) ==
    LET y == ToNumber(SubSeq(s, 1, 4))
        m == ToNumber(SubSeq(s, 6, 7))
        d == ToNumber(SubSeq(s, 9, 10))
    IN  IF m \in 1..12 /\ d >= 1 /\ d <= DaysInMonth(y, m)
        THEN [valid |-> TRUE, y |-> y, m |-> m, d |-> d] ELSE InvalidDate

\* new Date(s) for "Month D, YYYY" text, a format ECMAScript leaves to the
\* engine: the calendar date when the engine reads the format and the text
\* names a month, a day of that month and a year; Invalid Date otherwise
ParseMonthDayYear(s, engineReadsNames) ==
    LET parts == splitWhitespace(s)
        dayTok == IF Len(parts) = 3 THEN replaceFirst(parts[2], ",") ELSE <<>>
        m == IF Len(parts) = 3 THEN MonthOfWord(parts[1]) ELSE 0
    IN  IF /\ engineReadsNames
           /\ Len(parts) = 3
           /\ m # 0
           /\ dayTok # <<>> /\ AllDigits(dayTok)
           /\ Len(parts[3]) = 4 /\ AllDigits(parts[3])
           /\ ToNumber(dayTok) >= 1
           /\ ToNumber(dayTok) <= DaysInMonth(ToNumber(parts[3]), m)
        THEN [valid |-> TRUE, y |-> ToNumber(parts[3]), m |-> m, d |-> ToNumber(dayTok)]
        ELSE InvalidDate

\* new Date(s): the parsed calendar date, or Invalid Date
NewDate(s, engineReadsNames) ==
    IF IsIsoShape(s) THEN ParseIso(s) ELSE ParseMonthDayYear(s, engineReadsNames)

\* the months table of parseDateString: undefined for an unknown key
MonthsTable(key) ==
    LET hit(i) == Len(key) = 3 /\ substring(MonthNames[i], 0, 3) = key
    IN  IF \E i \in 1..12 : hit(i)
        THEN padStart2(ToDigits(CHOOSE i \in 1..12 : hit(i)))
        ELSE <<"u","n","d","e","f","i","n","e","d">>

\* BlogLoader.parseDateString: YYYY-MM-DD text, or NULL
parseDateString(dateStr, engineReadsNames) ==
    IF dateStr = NULL \/ dateStr = <<>> THEN NULL
    ELSE LET date == NewDate(dateStr, engineReadsNames) IN
         IF ~date.valid    \* isNaN(date.getTime())
         THEN LET parts == splitWhitespace(replaceFirst(toLowerCase(dateStr), ","))
              IN  IF Len(parts) >= 3
                  THEN parts[3] \o <<"-">> \o MonthsTable(substring(parts[1], 0, 3))
                         \o <<"-">> \o padStart2(parts[2])
                  ELSE NULL
         ELSE ToDigits(date.y) \o <<"-">> \o padStart2(ToDigits(date.m))
                \o <<"-">> \o padStart2(ToDigits(date.d))

\* isNaN(new Date(text).getTime()).  The stored date texts have the ISO
\* shape or are unreadable to every engine.
IsNaNDate(text) == ~NewDate(text, TRUE).valid

\* new Date(text).getTime() of a valid date, in days
TimeValue(text) ==
    LET date == NewDate(text, TRUE) IN DayNumber(date.y, date.m, date.d)

\* ------------------------------------------------------------------------
\* BlogLoader: scraping the index page
\* ------------------------------------------------------------------------

\* "https://blog.mlc.ai"
BlogHost ==
    <<"h","t","t","p","s",":","/","/","b","l","o","g",".","m","l","c",".","a","i">>

\* the test of the date pattern left out: every target passes
NoDatePathTest(s) == TRUE

\* /\d{4}\/\d{2}\/\d{2}/.test(s)
HasDatePath(s) ==
    \E i \in 1..Len(s) :
        /\ i + 9 <= Len(s)
        /\ \A k \in {0, 1, 2, 3, 5, 6, 8, 9} : IsDigit(s[i + k])
        /\ s[i + 4] = "/" /\ s[i + 7] = "/"

\* the date text of a list item: the last span whose text looks like a date
RECURSIVE FindDateSpan(_, _)
FindDateSpan(spans, i) ==
    IF i < 1 THEN NULL
    ELSE LET spanText == trim(spans[i]) IN
         IF LooksLikeMonthDayYear(spanText) \/ HasFourDigits(spanText)
         THEN spanText
         ELSE FindDateSpan(spans, i - 1)

\* the body of listItems.forEach: the post skeletons (none or one) that one
\* list item adds to posts
ScrapeItem(li, engineReadsNames) ==
    IF ~li.hasLink THEN <<>>
    ELSE LET title == trim(li.text)
             href == li.href
         IN  IF \/ title = <<>>
                \/ toLowerCase(title) = <<"h","o","m","e">>
                \/ href = <<"/">>
                \/ href = <<"/","i","n","d","e","x",".","h","t","m","l">>
             THEN <<>>
             ELSE IF ~HasDatePath(href) THEN <<>>
             ELSE LET url == IF startsWith(href, <<"h","t","t","p">>)
                             THEN href ELSE BlogHost \o href
                      dateStr == FindDateSpan(li.spans, Len(li.spans))
                  IN  << [title |-> title,
                          url |-> url,
                          date |-> parseDateString(dateStr, engineReadsNames),
                          rawDate |-> dateStr,
                          excerpt |-> UNDEFINED,
                          category |-> UNDEFINED,
                          readTime |-> UNDEFINED] >>

RECURSIVE ScrapeItems(_, _)
\* listItems.forEach(...): the skeletons in scrape order
ScrapeItems(items, engineReadsNames) ==
    IF items = <<>> THEN <<>>
    ELSE ScrapeItem(Head(items), engineReadsNames)
           \o ScrapeItems(Tail(items), engineReadsNames)

\* the comparator of posts.sort; a NaN result counts as +0 to the sort
ComparePosts(a, b) ==
    IF a.date = NULL /\ b.date = NULL THEN 0
    ELSE IF a.date = NULL THEN 1
    ELSE IF b.date = NULL THEN -1
    ELSE IF IsNaNDate(a.date) \/ IsNaNDate(b.date) THEN 0
    ELSE TimeValue(b.date) - TimeValue(a.date)

\* ECMAScript's "consistent comparator" over the elements of s
IsConsistentComparator(s) ==
    LET Sign(n) == IF n < 0 THEN -1 ELSE IF n > 0 THEN 1 ELSE 0
        c(i, j) == Sign(ComparePosts(s[i], s[j]))
        I == 1..Len(s)
    IN  /\ \A i \in I : c(i, i) = 0
        /\ \A i, j \in I : c(i, j) = -c(j, i)
        /\ \A i, j, k \in I :
              /\ (c(i, j) = 0 /\ c(j, k) = 0) => c(i, k) = 0
              /\ (c(i, j) < 0 /\ c(j, k) < 0) => c(i, k) < 0
              /\ (c(i, j) > 0 /\ c(j, k) > 0) => c(i, k) > 0

RECURSIVE InsertSorted(_, _)
\* x placed after every element that does not sort after it
InsertSorted(s, x) ==
    IF s = <<>> THEN <<x>>
    ELSE IF ComparePosts(s[1], x) <= 0 THEN <<s[1]>> \o InsertSorted(Tail(s), x)
    ELSE <<x>> \o s

RECURSIVE StableSort(_)
\* the stable sort of s under ComparePosts
StableSort(s) ==
    IF s = <<>> THEN <<>>
    ELSE InsertSorted(StableSort(SubSeq(s, 1, Len(s) - 1)), s[Len(s)])

\* Array.prototype.sort with ComparePosts: the stable order under a
\* consistent comparator; an order of the engine's choosing otherwise
SortOutcomes(s) ==
    LET I == 1..Len(s)
        perms == {p \in [I -> I] : \A i, j \in I : p[i] = p[j] => i = j}
        Rearrangements == {[i \in I |-> s[p[i]]] : p \in perms}
    IN  IF IsConsistentComparator(s) THEN {StableSort(s)} ELSE Rearrangements

\* BlogLoader.fetchPostsFromBlog on a fetched index page: the lists of post
\* skeletons it may return
fetchPostsFromBlog(items, engineReadsNames) ==
    SortOutcomes(ScrapeItems(items, engineReadsNames))

\* ------------------------------------------------------------------------
\* BlogLoader: enrichment
\* ------------------------------------------------------------------------

Tutorials == <<"t","u","t","o","r","i","a","l","s">>

Optimization == <<"o","p","t","i","m","i","z","a","t","i","o","n">>

Deployment == <<"d","e","p","l","o","y","m","e","n","t">>

Research == <<"r","e","s","e","a","r","c","h">>

\* the value 'all' of currentCategory
AllCategories == <<"a","l","l">>

\* the data-category values of the category buttons of the blog page
ButtonCategories == {AllCategories, Tutorials, Optimization, Deployment, Research}

\* 'Read the full article to learn more.'
DefaultExcerpt ==
    <<"R","e","a","d"," ","t","h","e"," ","f","u","l","l"," ","a","r","t","i","c","l","e"," ","t","o"," ","l","e","a","r","n"," ","m","o","r","e",".">>

\* ' min read'
MinRead == <<" ","m","i","n"," ","r","e","a","d">>

\* '...'
Ellipsis == <<".", ".", ".">>

\* the excerpt length kept by enrichPostData
ExcerptCap == 200

\* the batch size of fetchAllPosts
batchSize == 5

\* the words counted as one minute of reading
WordsPerMinute == 200

\* the least read time of an enriched post, in minutes
MinReadTime == 3

\* the read time of the defaults, in minutes
DefaultReadTime == 5

\* determineCategory matching its keywords against the title and the body
determineCategoryOfBoth(title, body) ==
    LET lowerTitle == toLowerCase(title)
        lowerBody == toLowerCase(body)
        has(w) == includes(lowerTitle, w) \/ includes(lowerBody, w)
    IN  IF has(<<"t","u","t","o","r","i","a","l">>) \/ has(<<"g","u","i","d","e">>) \/ has(<<"h","o","w"," ","t","o">>)
        THEN Tutorials
        ELSE IF has(<<"o","p","t","i","m","i","z","a","t","i","o","n">>) \/ has(<<"o","p","t","i","m","i","z","i","n","g">>) \/ has(<<"p","e","r","f","o","r","m","a","n","c","e">>)
        THEN Optimization
        ELSE IF \/ has(<<"d","e","p","l","o","y","m","e","n","t">>) \/ has(<<"d","e","p","l","o","y">>) \/ has(<<"s","e","r","v","i","n","g">>)
                \/ has(<<"m","o","b","i","l","e">>) \/ has(<<"a","n","d","r","o","i","d">>) \/ has(<<"g","p","u">>)
        THEN Deployment
        ELSE IF has(<<"r","e","s","e","a","r","c","h">>) \/ has(<<"p","a","p","e","r">>) \/ has(<<"s","t","u","d","y">>)
        THEN Research
        ELSE Deployment

\* BlogLoader.determineCategory
determineCategory(title, body) ==
    LET lowerTitle == toLowerCase(title)
        has(w) == includes(lowerTitle, w)
    IN  IF has(<<"t","u","t","o","r","i","a","l">>) \/ has(<<"g","u","i","d","e">>) \/ has(<<"h","o","w"," ","t","o">>)
        THEN Tutorials
        ELSE IF has(<<"o","p","t","i","m","i","z","a","t","i","o","n">>) \/ has(<<"o","p","t","i","m","i","z","i","n","g">>) \/ has(<<"p","e","r","f","o","r","m","a","n","c","e">>)
        THEN Optimization
        ELSE IF \/ has(<<"d","e","p","l","o","y","m","e","n","t">>) \/ has(<<"d","e","p","l","o","y">>) \/ has(<<"s","e","r","v","i","n","g">>)
                \/ has(<<"m","o","b","i","l","e">>) \/ has(<<"a","n","d","r","o","i","d">>) \/ has(<<"g","p","u">>)
        THEN Deployment
        ELSE IF has(<<"r","e","s","e","a","r","c","h">>) \/ has(<<"p","a","p","e","r">>) \/ has(<<"s","t","u","d","y">>)
        THEN Research
        ELSE Deployment

\* Math.min taken for Math.max
SmallerOf(a, b) == IF a <= b THEN a ELSE b

\* Math.max(a, b)
Max(a, b) == IF a >= b THEN a ELSE b

\* Math.min(a, b)
Min(a, b) == IF a <= b THEN a ELSE b

\* Math.ceil(a / b) for a >= 0, b > 0
CeilDiv(a, b) == (a + b - 1) \div b

\* the catch block of enrichPostData: the post with default values
EnrichDefaults(post) ==
    [post EXCEPT !.excerpt = DefaultExcerpt,
                 !.category = determineCategory(post.title, <<>>),
                 !.readTime = ToDigits(DefaultReadTime) \o MinRead]

\* EnrichFromPage cutting a long excerpt without marking the cut
EnrichFromPageCutOnly(post, doc) ==
    LET fromMeta == IF doc.hasMeta THEN doc.metaContent ELSE <<>>
        source == IF fromMeta = NULL \/ fromMeta = <<>>
                  THEN (IF doc.paragraph # NULL THEN trim(doc.paragraph) ELSE fromMeta)
                  ELSE fromMeta
    IN  IF source = NULL
        THEN EnrichDefaults(post)
        ELSE LET excerpt == substring(source, 0, ExcerptCap)
                 wordCount == Len(splitWhitespace(excerpt))
             IN  [post EXCEPT
                    !.excerpt = IF excerpt = <<>> THEN DefaultExcerpt ELSE excerpt,
                    !.category = determineCategory(post.title, excerpt),
                    !.readTime = ToDigits(Max(MinReadTime, CeilDiv(wordCount, WordsPerMinute)))
                                   \o MinRead]

\* the try block of enrichPostData once the post's page has been read
EnrichFromPage(post, doc) ==
    LET fromMeta == IF doc.hasMeta THEN doc.metaContent ELSE <<>>
        source == IF fromMeta = NULL \/ fromMeta = <<>>
                  THEN (IF doc.paragraph # NULL THEN trim(doc.paragraph) ELSE fromMeta)
                  ELSE fromMeta
    IN  IF source = NULL
        THEN EnrichDefaults(post)      \* excerpt.length throws a TypeError
        ELSE LET excerpt == IF Len(source) > ExcerptCap
                            THEN substring(source, 0, ExcerptCap) \o Ellipsis
                            ELSE source
                 wordCount == Len(splitWhitespace(excerpt))
             IN  [post EXCEPT
                    !.excerpt = IF excerpt = <<>> THEN DefaultExcerpt ELSE excerpt,
                    !.category = determineCategory(post.title, excerpt),
                    !.readTime = ToDigits(Max(MinReadTime, CeilDiv(wordCount, WordsPerMinute)))
                                   \o MinRead]

\* BlogLoader.enrichPostData: the value its promise resolves with, given how
\* the fetch of the post's page ended and the page it returned
enrichPostData(post, outcome, doc) ==
    IF outcome = "net_error" THEN EnrichDefaults(post)
    ELSE IF outcome = "http_error" THEN post      \* if (!response.ok) return post
    ELSE EnrichFromPage(post, doc)

\* ------------------------------------------------------------------------
\* BlogLoader: rendering
\* ------------------------------------------------------------------------

\* the message of init for an empty working set
NoPostsMessage == "No blog posts found."

\* the message of init's catch block
FailedMessage == "Failed to load blog posts. Please try again later."

\* the untouched content of a container of the static page
Untouched == [kind |-> "untouched", message |-> "", cards |-> <<>>]

\* BlogLoader.showLoading: the content written to .posts-grid
showLoading == [kind |-> "loading", message |-> "Loading blog posts...", cards |-> <<>>]

\* BlogLoader.showError: the content written to .posts-grid
showError(message) == [kind |-> "error", message |-> message, cards |-> <<>>]

\* the fallback card of initHomepage's catch block
HomepageError == [kind |-> "error", message |-> "Unable to load blog posts", cards |-> <<>>]

\* a content's kind and message, without its cards
Rendering(content) == [kind |-> content.kind, message |-> content.message]

\* what a card shows of a post (a missing property shows as its value
\* UNDEFINED, the text "undefined" of the template)
Card(post) ==
    [title |-> post.title, url |-> post.url, excerpt |-> post.excerpt,
     category |-> post.category, readTime |-> post.readTime]

\* BlogLoader.renderPostCard throws: post.category.charAt of an undefined
\* category is a TypeError
renderPostCardThrows(post) == post.category = UNDEFINED

\* BlogLoader.renderPostCard
renderPostCard(post) == Card(post)

\* BlogLoader.renderNewsCard (a missing category shows as 'Blog')
renderNewsCard(post) == Card(post)

\* Array.prototype.filter(post => post.category === category)
RECURSIVE FilterCategory(_, _)
FilterCategory(ps, category) ==
    IF ps = <<>> THEN <<>>
    ELSE (IF Head(ps).category = category THEN <<Head(ps)>> ELSE <<>>)
           \o FilterCategory(Tail(ps), category)

\* the posts renderPosts renders: the filtered posts but the first
PostsToRender(ps, category) ==
    LET filteredPosts == IF category = AllCategories THEN ps
                         ELSE FilterCategory(ps, category)
    IN  IF filteredPosts = <<>> THEN <<>> ELSE Tail(filteredPosts)

\* BlogLoader.renderPosts: whether it throws, and the content it writes to
\* .posts-grid when it does not
renderPosts(ps, category) ==
    LET postsToRender == PostsToRender(ps, category)
    IN  IF postsToRender = <<>>
        THEN [threw |-> FALSE,
              grid |-> [kind |-> "posts",
                        message |-> "No posts found in this category.",
                        cards |-> <<>>]]
        ELSE IF \E k \in 1..Len(postsToRender) : renderPostCardThrows(postsToRender[k])
        THEN [threw |-> TRUE, grid |-> Untouched]
        ELSE [threw |-> FALSE,
              grid |-> [kind |-> "posts", message |-> "",
                        cards |-> [k \in 1..Len(postsToRender) |->
                                      renderPostCard(postsToRender[k])]]]

\* BlogLoader.renderFeaturedArticle: the content written to the featured block
\* and to .chart-bars, this.posts being ps (a width is the quotient of its
\* two numbers, NaN when the second is 0)
renderFeaturedArticle(post, ps) ==
    LET DatedWith(prefix) ==
            Cardinality({k \in 1..Len(ps) :
                            /\ ps[k].date \notin {NULL, UNDEFINED, <<>>}
                            /\ startsWith(ps[k].date, prefix)})
        totalPosts == Len(ps)
        posts2024 == DatedWith(<<"2","0","2","4">>)
        posts2025 == DatedWith(<<"2","0","2","5">>)
    IN  [content |-> [kind |-> "featured", message |-> "", cards |-> <<Card(post)>>],
         chart |->
            [kind |-> "chart",
             bars |-> <<[label |-> "Total Posts", value |-> totalPosts,
                         width |-> <<100, 1>>],
                        [label |-> "2024 Posts", value |-> posts2024,
                         width |-> <<posts2024 * 100, totalPosts>>],
                        [label |-> "2025 Posts", value |-> posts2025,
                         width |-> <<posts2025 * 100, totalPosts>>]>>]]

\* BlogLoader.renderHomepageBlogs: the content written to .news-grid
renderHomepageBlogs(ps, count) ==
    IF ps = <<>>
    THEN [kind |-> "loading", message |-> "Loading blog posts...", cards |-> <<>>]
    ELSE [kind |-> "news", message |-> "",
          cards |-> [k \in 1..Min(count, Len(ps)) |-> renderNewsCard(ps[k])]]

\* the posts shown on the homepage
HomepageCount == 2

\* ------------------------------------------------------------------------
\* The external blog: index pages and post pages of the bounded inputs
\* ------------------------------------------------------------------------

\* <li><a href="/about">About</a></li>
ItemAbout ==
    [hasLink |-> TRUE, text |-> <<"A","b","o","u","t">>, href |-> <<"/","a","b","o","u","t">>, spans |-> <<>>]

\* a post titled "GPU Guide", dated "Jan 7, 2025"
ItemGuide ==
    [hasLink |-> TRUE, text |-> <<"G","P","U"," ","G","u","i","d","e">>, href |-> <<"/","2","0","2","5","/","0","1","/","0","7","/","a">>,
     spans |-> << <<"J","a","n"," ","7",","," ","2","0","2","5">> >>]

\* a post titled "Paper", dated "May 1, 2024"
ItemPaper ==
    [hasLink |-> TRUE, text |-> <<"P","a","p","e","r">>, href |-> <<"/","2","0","2","4","/","0","5","/","0","1","/","b">>,
     spans |-> << <<"M","a","y"," ","1",","," ","2","0","2","4">> >>]

\* a post titled "Notes" whose list item has no date span
ItemNotes ==
    [hasLink |-> TRUE, text |-> <<"N","o","t","e","s">>, href |-> <<"/","2","0","2","4","/","0","6","/","0","2","/","c">>, spans |-> <<>>]

\* a second post without a date span
ItemMemo ==
    [hasLink |-> TRUE, text |-> <<"M","e","m","o">>, href |-> <<"/","2","0","2","4","/","0","6","/","0","3","/","d">>, spans |-> <<>>]

\* a post whose date span reads "Foo 7, 2025" (no month is named Foo)
ItemOdd ==
    [hasLink |-> TRUE, text |-> <<"O","d","d">>, href |-> <<"/","2","0","2","5","/","0","2","/","0","3","/","e">>,
     spans |-> << <<"F","o","o"," ","7",","," ","2","0","2","5">> >>]

\* a post titled "Study", dated "January 7, 2025"
ItemStudy ==
    [hasLink |-> TRUE, text |-> <<"S","t","u","d","y">>, href |-> <<"/","2","0","2","5","/","0","1","/","0","7","/","f">>,
     spans |-> << <<"J","a","n","u","a","r","y"," ","7",","," ","2","0","2","5">> >>]

\* the sequences over S of length at most n
SeqsUpTo(S, n) == UNION {[1..k -> S] : k \in 0..n}

\* the detailed index pages
DetailedPages == SeqsUpTo({ItemAbout, ItemGuide, ItemPaper, ItemNotes}, MaxItems)

\* the plain index pages; their k-th post: "Post", /2025/01/kk/p, "Jan k, 2025"
PlainPages ==
    LET PlainItem(k) ==
            [hasLink |-> TRUE, text |-> <<"P","o","s","t">>,
             href |-> <<"/","2","0","2","5","/","0","1","/">> \o padStart2(ToDigits(k)) \o <<"/","p">>,
             spans |-> << <<"J","a","n"," ">> \o ToDigits(k) \o <<","," ","2","0","2","5">> >>]
    IN  {[k \in 1..n |-> PlainItem(k)] : n \in 0..MaxPlainPosts}

\* the index pages of the date-ordering specification
SortPages ==
    SeqsUpTo({ItemGuide, ItemPaper, ItemNotes, ItemMemo, ItemOdd, ItemStudy}, MaxSortItems)

\* the page served at a post's url: its meta description and first paragraph
PostPageOf(url) ==
    IF url = BlogHost \o ItemGuide.href
    THEN [hasMeta |-> TRUE, metaContent |-> <<"F","a","s","t"," ","G","P","U"," ","k","e","r","n","e","l","s">>, paragraph |-> NULL]
    ELSE IF url = BlogHost \o ItemPaper.href
    THEN [hasMeta |-> FALSE, metaContent |-> NULL, paragraph |-> <<" ","A"," ","s","t","u","d","y","."," ">>]
    ELSE IF url = BlogHost \o ItemNotes.href
    THEN [hasMeta |-> TRUE, metaContent |-> NULL, paragraph |-> NULL]
    \* a meta description of 250 characters: words of nine letters
    ELSE IF url = BlogHost \o <<"/","2","0","2","5","/","0","1","/","0","7","/","m","y","-","p","o","s","t">>
    THEN [hasMeta |-> TRUE, metaContent |-> [i \in 1..250 |-> IF i % 10 = 0 THEN " " ELSE "a"],
          paragraph |-> NULL]
    \* a first paragraph of 201 characters between blanks
    ELSE IF url = BlogHost \o <<"2","0","2","4","/","0","5","/","0","1","/","b">>
    THEN [hasMeta |-> FALSE, metaContent |-> NULL,
          paragraph |-> <<" ">> \o [i \in 1..201 |-> IF i % 10 = 0 THEN " " ELSE "b"] \o <<" ">>]
    \* an empty meta description and a first paragraph of 200 characters
    \* between blanks
    ELSE IF url = <<"h","t","t","p","s",":","/","/","b","l","o","g",".","m","l","c",".","a","i","/","2","0","2","5","/","0","1","/","0","7","/","s">>
    THEN [hasMeta |-> TRUE, metaContent |-> <<>>,
          paragraph |-> <<" ", " ">> \o [i \in 1..200 |-> IF i % 7 = 0 THEN " " ELSE "c"] \o <<" ">>]
    ELSE IF url = BlogHost \o <<"/","2","0","2","4","/","0","6","/","0","9","/","n">>
    THEN [hasMeta |-> TRUE, metaContent |-> <<"A"," ","t","u","t","o","r","i","a","l"," ","o","n"," ","r","e","s","e","a","r","c","h">>, paragraph |-> NULL]
    ELSE [hasMeta |-> FALSE, metaContent |-> NULL, paragraph |-> NULL]

\* the index pages of the scraping and enrichment specification: list items
\* without a link, with a link of blank text, with the home label, with the
\* root and the index page as targets, with targets without a date segment
\* and without an href; posts with relative targets with and without a
\* leading slash and with an absolute target; two posts of one title
ScrapePages ==
    LET Item(text, href, spans) ==
            [hasLink |-> TRUE, text |-> text, href |-> href, spans |-> spans]
        dated == << <<"J","a","n"," ","7",","," ","2","0","2","5">> >>
    IN  SeqsUpTo({[hasLink |-> FALSE, text |-> <<>>, href |-> NULL, spans |-> <<>>],
                  Item(<<" ">>, <<"/","2","0","2","5","/","0","1","/","0","7","/","w">>, dated),
                  Item(<<" ","H","o","M","e"," ">>, <<"/","2","0","2","5","/","0","1","/","0","7","/","h">>, dated),
                  Item(<<"R","o","o","t">>, <<"/">>, <<>>),
                  Item(<<"I","n","d","e","x">>, <<"/","i","n","d","e","x",".","h","t","m","l">>, <<>>),
                  Item(<<"L","i","n","k">>, NULL, <<>>),
                  ItemAbout, ItemGuide, ItemNotes,
                  Item(<<"N","o","t","e","s">>, <<"/","2","0","2","4","/","0","6","/","0","9","/","n">>, <<>>),
                  Item(<<"M","y"," ","P","o","s","t">>, <<"/","2","0","2","5","/","0","1","/","0","7","/","m","y","-","p","o","s","t">>, dated),
                  Item(<<"P","a","p","e","r">>, <<"2","0","2","4","/","0","5","/","0","1","/","b">>, << <<"M","a","y"," ","1",","," ","2","0","2","4">> >>),
                  Item(<<"O","p","t","i","m","i","z","i","n","g"," ","a"," ","S","t","u","d","y">>, <<"h","t","t","p","s",":","/","/","b","l","o","g",".","m","l","c",".","a","i","/","2","0","2","5","/","0","1","/","0","7","/","s">>, dated)},
                 MaxPostItems)

\* ------------------------------------------------------------------------
\* GitHubStatsLoader
\* ------------------------------------------------------------------------

\* "github.com"
HostMarker == <<"g","i","t","h","u","b",".","c","o","m">>

\* the longest run of characters other than "/" of s from position i on
RECURSIVE SegmentFrom(_, _)
SegmentFrom(s, i) ==
    IF i > Len(s) \/ s[i] = "/" THEN <<>> ELSE <<s[i]>> \o SegmentFrom(s, i + 1)

\* /github\.com\/([^\/]+\/[^\/]+)/ matches href with "github.com/" at position i
RepoMatchAt(href, i) ==
    LET p == i + Len(HostMarker) + 1
        owner == SegmentFrom(href, p)
        q == p + Len(owner) + 1
    IN  /\ OccursAt(href, HostMarker \o <<"/">>, i)
        /\ owner # <<>>
        /\ q - 1 <= Len(href) /\ href[q - 1] = "/"
        /\ SegmentFrom(href, q) # <<>>

\* match[1] of the leftmost match
RepoCapture(href) ==
    LET i == CHOOSE j \in 1..Len(href) :
                 RepoMatchAt(href, j) /\ \A h \in 1..(j - 1) : ~RepoMatchAt(href, h)
        p == i + Len(HostMarker) + 1
        owner == SegmentFrom(href, p)
    IN  owner \o <<"/">> \o SegmentFrom(href, p + Len(owner) + 1)

\* String.prototype.endsWith
endsWith(s, sub) == OccursAt(s, sub, Len(s) - Len(sub) + 1)

\* String.prototype.split('/').length
SlashParts(s) == 1 + Cardinality({i \in 1..Len(s) : s[i] = "/"})

\* the body of links.forEach: the repository paths (none or one) a link adds
RepoOfLink(href) ==
    IF ~\E i \in 1..Len(href) : RepoMatchAt(href, i) THEN <<>>
    ELSE LET captured == RepoCapture(href)
             repoPath == IF captured[Len(captured)] = "/"
                         THEN SubSeq(captured, 1, Len(captured) - 1) ELSE captured
         IN  IF /\ repoPath # <<>>
                /\ ~endsWith(repoPath, <<".", "c", "o", "m">>)
                /\ SlashParts(repoPath) = 2
             THEN <<repoPath>> ELSE <<>>

\* AddAll into an array for a Set: push keeps an element already present
AddAllKeepingDuplicates(set, xs) == set \o xs

RECURSIVE AddAll(_, _)
\* Set.prototype.add of each element of xs to the insertion-ordered set
AddAll(set, xs) ==
    IF xs = <<>> THEN set
    ELSE AddAll(IF \E i \in 1..Len(set) : set[i] = Head(xs) THEN set
                ELSE Append(set, Head(xs)), Tail(xs))

RECURSIVE ReposOfLinks(_, _)
ReposOfLinks(set, links) ==
    IF links = <<>> THEN set
    ELSE ReposOfLinks(
            IF includes(Head(links), HostMarker)    \* a[href*="github.com"]
            THEN AddAll(set, RepoOfLink(Head(links))) ELSE set,
            Tail(links))

\* GitHubStatsLoader.extractGitHubRepos on the fetched page: Array.from(repos)
extractGitHubRepos(links) == ReposOfLinks(<<>>, links)

\* the result null of fetchRepoStats
NoStats == [found |-> FALSE, threw |-> FALSE, name |-> <<>>, stars |-> 0, forks |-> 0]

\* an exception leaving fetchRepoStats: its promise rejects
Thrown == [found |-> FALSE, threw |-> TRUE, name |-> <<>>, stars |-> 0, forks |-> 0]

\* fetchRepoStats without its try/catch: only the 404 is handled
fetchRepoStatsUncaught(repoPath, outcome, data) ==
    IF outcome = "ok"
    THEN [found |-> TRUE, threw |-> FALSE,
          name |-> data.full_name,
          stars |-> IF data.hasStars THEN data.stargazers_count ELSE 0,
          forks |-> IF data.hasForks THEN data.forks_count ELSE 0]
    ELSE IF outcome = "not_found" THEN NoStats
    ELSE Thrown

\* GitHubStatsLoader.fetchRepoStats: what its promise settles with, given
\* how the request ended and the JSON it returned.  A 404 returns null; the
\* error thrown for another status, a rejected fetch and a rejected
\* response.json() are caught and return null.
fetchRepoStats(repoPath, outcome, data) ==
    IF outcome = "ok"
    THEN [found |-> TRUE, threw |-> FALSE,
          name |-> data.full_name,
          stars |-> IF data.hasStars THEN data.stargazers_count ELSE 0,
          forks |-> IF data.hasForks THEN data.forks_count ELSE 0]
    ELSE NoStats

RECURSIVE SumStatsUntilNull(_, _)
\* SumStats with a loop that a null result ends
SumStatsUntilNull(results, field) ==
    IF results = <<>> \/ ~Head(results).found THEN 0
    ELSE Head(results)[field] + SumStatsUntilNull(Tail(results), field)

RECURSIVE SumStats(_, _)
\* results.forEach(stat => { if (stat) total += stat[field] })
SumStats(results, field) ==
    IF results = <<>> THEN 0
    ELSE (IF Head(results).found THEN Head(results)[field] ELSE 0)
           + SumStats(Tail(results), field)

RECURSIVE Doubled(_, _, _)
\* (r * 2^k) modulo unit
Doubled(r, k, unit) == IF k = 0 THEN r ELSE Doubled((2 * r) % unit, k - 1, unit)

RECURSIVE BinaryExponent(_, _, _)
\* the exponent e of the double num / unit: unit * 2^e <= num < unit * 2^(e+1)
BinaryExponent(num, unit, e) ==
    IF unit * 2 <= num THEN BinaryExponent(num \div 2, unit, e + 1) ELSE e

\* (num / unit).toFixed(1) for integers num >= unit: the tenth nearest to
\* the double num / unit, the larger of two equally near tenths.  The double
\* is less than the quotient of the integers when its 53-bit significand, the
\* quotient rounded to nearest, is rounded down: when the remainder of
\* num * 2^(52 - e) by unit is under half of unit.
toFixed1(num, unit) ==
    LET whole == (num * 10) \div unit
        rest == (num * 10) % unit
        r == Doubled(num % unit, 52 - BinaryExponent(num, unit, 0), unit)
        DoubleIsBelow == r # 0 /\ 2 * r < unit
        tenths == IF 2 * rest < unit THEN whole
                  ELSE IF 2 * rest > unit THEN whole + 1
                  ELSE IF DoubleIsBelow THEN whole ELSE whole + 1
    IN  ToDigits(tenths \div 10) \o <<".">> \o ToDigits(tenths % 10)

\* GitHubStatsLoader.formatNumber
formatNumber(num) ==
    IF num >= 1000000 THEN toFixed1(num, 1000000) \o <<"M">>
    ELSE IF num >= 1000 THEN toFixed1(num, 1000) \o <<"K">>
    ELSE ToDigits(num)

\* init has no value of fetchAllStats yet
NotReturned == [returned |-> FALSE, stars |-> 0, forks |-> 0]

\* the static tiles of the page
NoTiles == [kind |-> "untouched", stars |-> <<>>, forks |-> <<>>]

\* GitHubStatsLoader.showLoading (the stats tiles)
showStatsLoading == [kind |-> "loading", stars |-> <<>>, forks |-> <<>>]

\* GitHubStatsLoader.showError: a dash in each tile
showStatsError == [kind |-> "error", stars |-> <<"-">>, forks |-> <<"-">>]

\* GitHubStatsLoader.renderStats
renderStats(stats) ==
    [kind |-> "stats", stars |-> formatNumber(stats.stars),
     forks |-> formatNumber(stats.forks)]

\* the anchors of the bounded projects pages
HrefRepoAB == <<"h","t","t","p","s",":","/","/","g","i","t","h","u","b",".","c","o","m","/","a","/","b">>

HrefRepoABSlash == <<"h","t","t","p","s",":","/","/","g","i","t","h","u","b",".","c","o","m","/","a","/","b","/">>

HrefOwnerOnly == <<"h","t","t","p","s",":","/","/","g","i","t","h","u","b",".","c","o","m","/","a">>

HrefRepoAC == <<"h","t","t","p","s",":","/","/","g","i","t","h","u","b",".","c","o","m","/","a","/","c","/","i","s","s","u","e","s">>

HrefElsewhere == <<"h","t","t","p","s",":","/","/","x",".","o","r","g","/","a","/","b">>

\* Longest projects page (anchors).
MaxLinks == 2

\* Most calls of extractGitHubRepos on one page.
MaxExtractCalls == 2

ProjectsPages ==
    SeqsUpTo({HrefRepoAB, HrefRepoABSlash, HrefOwnerOnly, HrefRepoAC, HrefElsewhere}, MaxLinks)

\* the JSON the repository API returns for a repository
ApiData(repoPath) ==
    IF repoPath = <<"a","/","b">>
    THEN [full_name |-> repoPath, hasStars |-> TRUE, stargazers_count |-> 1500,
          hasForks |-> FALSE, forks_count |-> 0]
    ELSE [full_name |-> repoPath, hasStars |-> TRUE, stargazers_count |-> 999,
          hasForks |-> TRUE, forks_count |-> 2]


\* ------------------------------------------------------------------------
\* The partial includer
\* ------------------------------------------------------------------------

\* Most .nav-link elements of a header fragment.
MaxNavLinks == 2

IndexHtml == <<"i","n","d","e","x",".","h","t","m","l">>

\* a container as the static page has it
Placeholder == [kind |-> "placeholder", links |-> <<>>]

\* r.text(): a response is read whatever its status, and that of a status
\* that is no success has a body of its own
ResponseText(outcome, fragment) ==
    IF outcome = "ok" THEN fragment ELSE [kind |-> "status_body", links |-> <<>>]

\* const current: path.split('/').pop() || 'index.html'
CurrentPage(path) ==
    LET slashes == {i \in 1..Len(path) : path[i] = "/"}
        last == CHOOSE i \in slashes : \A j \in slashes : j <= i
        pop == IF slashes = {} THEN path ELSE SubSeq(path, last + 1, Len(path))
    IN  IF pop = <<>> THEN IndexHtml ELSE pop

\* setActiveNavLink adding the class where it belongs and removing it nowhere
setActiveNavLinkAddOnly(links, path) ==
    [i \in DOMAIN links |->
        [href |-> links[i].href,
         active |-> links[i].active \/ links[i].href = CurrentPage(path)]]

\* the class list of every .nav-link after setActiveNavLink
setActiveNavLink(links, path) ==
    LET current == CurrentPage(path) IN
    [i \in DOMAIN links |->
        [href |-> links[i].href,
         active |-> \/ links[i].href = current
                    \/ (current = <<>> /\ links[i].href = IndexHtml)]]

\* window.initNav(): initializes the navigation and returns; it leaves the
\* classes of the links alone
initNav(links) == links

\* ------------------------------------------------------------------------
\* State
\* ------------------------------------------------------------------------

VARIABLES
    \* the environment of one page load
    page,              \* "blog": .blog-posts is present; "home": .news-grid is
    indexItems,        \* the list items of the blog's index page
    engineReadsNames,  \* whether the engine's Date reads "Month D, YYYY"
    clockYear,         \* new Date().getFullYear() while the page loads
    failuresLeft,      \* post-page fetches the network may still fail
    \* the pending work of init / initHomepage and fetchAllPosts
    pc,                \* "ready", "index", "batch", "delay" or "done"
    indexFetch,        \* the fetch of the index page
    fetches,           \* the fetch of each post's page, by position
    fetchedPosts,      \* const posts of fetchAllPosts
    batchStart,        \* i of the batch loop of fetchAllPosts
    enrichedBatch,     \* the values Promise.all has gathered, by position
    enrichedPosts,     \* const enrichedPosts of fetchAllPosts
    \* the BlogLoader object
    posts, categories, currentCategory,
    \* the document
    postsGrid,         \* .posts-grid
    featured,          \* .featured-content
    chartBars,         \* .chart-bars
    newsGrid,          \* .latest-news .news-grid
    listeners,         \* the click listeners of the category buttons are set
    uncaught,          \* an exception has escaped a handler
    \* history of the run
    gridLog,           \* what init wrote to .posts-grid, in order
    batchLog,          \* the size of each batch issued, in order
    pauses,            \* the inter-batch timers that were started
    \* the statistics widget: its environment, GitHubStatsLoader, its tiles
    projectsLinks,     \* the href of each anchor of projects.html, in order
    statsPc,           \* "idle", "ready", "projects", "lookups" or "done"
    projectsFetch,     \* the fetch of projects.html
    repos,             \* this.repos
    lookups,           \* the lookup of each repository, by position
    totalStars,        \* this.totalStars
    totalForks,        \* this.totalForks
    statsGrid,         \* .stats .stats-grid
    stats,             \* const stats of init: what fetchAllStats returned
    extractLog,        \* each call of extractGitHubRepos: how its fetch ended, its value
    lookupLog,         \* the positions of the lookups, in the order they ended
    \* the partial includer and its document
    pathname,          \* location.pathname
    fragmentLinks,     \* the .nav-link elements of partials/header.html
    hasInitNav,        \* window.initNav is defined
    hasHeader,         \* the document has the element #site-header
    hasFooter,         \* the document has the element #site-footer
    headerFetch,       \* how the fetch of partials/header.html stands
    footerFetch,       \* how the fetch of partials/footer.html stands
    headerContent,     \* innerHTML of #site-header
    footerContent,     \* innerHTML of #site-footer
    navLinks,          \* the .nav-link elements of the document
    headerSteps,       \* what the header's handler did, in order
    surfaced,          \* a rejection no handler caught
    \* one call of formatNumber
    fmtInput,          \* the argument num
    fmtOutput,         \* the value returned, Pending before the call
    \* one call of parseDateString
    rawText,           \* the argument dateStr
    normalized         \* the value returned, Pending before the call

blogVars ==
    <<page, indexItems, engineReadsNames, clockYear, failuresLeft,
      pc, indexFetch, fetches, fetchedPosts, batchStart, enrichedBatch,
      enrichedPosts, posts, categories, currentCategory,
      postsGrid, featured, chartBars, newsGrid, listeners, uncaught,
      gridLog, batchLog, pauses>>

statsVars ==
    <<projectsLinks, statsPc, projectsFetch, repos, lookups, totalStars,
      totalForks, statsGrid, stats, extractLog, lookupLog>>

dateVars == <<rawText, normalized>>

formatVars == <<fmtInput, fmtOutput>>

includerVars ==
    <<pathname, fragmentLinks, hasInitNav, hasHeader, hasFooter, headerFetch,
      footerFetch, headerContent, footerContent, navLinks, headerSteps,
      surfaced>>

vars == <<blogVars, statsVars, dateVars, formatVars, includerVars>>

\* new BlogLoader() on a freshly loaded page
BlogLoaderInit ==
    /\ pc = "ready"
    /\ indexFetch = "idle"
    /\ fetches = <<>>
    /\ fetchedPosts = <<>>
    /\ batchStart = 0
    /\ enrichedBatch = <<>>
    /\ enrichedPosts = <<>>
    /\ posts = <<>>
    /\ categories = {}
    /\ currentCategory = AllCategories
    /\ postsGrid = Untouched
    /\ featured = Untouched
    /\ chartBars = Untouched
    /\ newsGrid = Untouched
    /\ listeners = FALSE
    /\ uncaught = FALSE
    /\ gridLog = <<>>
    /\ batchLog = <<>>
    /\ pauses = 0

\* new GitHubStatsLoader(); the widget stays idle on a page without .stats-grid
StatsLoaderInit(start) ==
    /\ statsPc = start
    /\ projectsFetch = "idle"
    /\ repos = <<>>
    /\ lookups = <<>>
    /\ totalStars = 0
    /\ totalForks = 0
    /\ statsGrid = NoTiles
    /\ stats = NotReturned
    /\ extractLog = <<>>
    /\ lookupLog = <<>>

\* no call of parseDateString outside the loader is under way
NoDateCall ==
    /\ rawText = NULL
    /\ normalized = NULL

\* a document without the containers of the partial includer
NoIncluder ==
    /\ pathname = <<"/">>
    /\ fragmentLinks = <<>>
    /\ hasInitNav = FALSE
    /\ hasHeader = FALSE
    /\ hasFooter = FALSE
    /\ headerFetch = "none"
    /\ footerFetch = "none"
    /\ headerContent = Placeholder
    /\ footerContent = Placeholder
    /\ navLinks = <<>>
    /\ headerSteps = <<>>
    /\ surfaced = FALSE

\* no call of formatNumber outside renderStats is under way
NoFormatCall ==
    /\ fmtInput = 0
    /\ fmtOutput = NULL

Init ==
    /\ NoDateCall
    /\ NoFormatCall
    /\ NoIncluder
    /\ projectsLinks = <<>>
    /\ StatsLoaderInit("idle")
    /\ page \in {"blog", "home"}
    /\ indexItems \in DetailedPages \cup PlainPages
    /\ engineReadsNames = TRUE
    /\ clockYear \in {2025, 2026}
    /\ failuresLeft = MaxFailing
    /\ BlogLoaderInit

\* ------------------------------------------------------------------------
\* BlogLoader: init, initHomepage and fetchAllPosts
\* ------------------------------------------------------------------------

\* BatchEnd with the slice running to the end of the list: one batch for all
BatchEndUnbounded(start, n) == n

\* the end of posts.slice(i, i + batchSize)
BatchEnd(start, n) == Min(start + batchSize, n)

\* MoreBatches with <= for <: a pause follows a last, full batch too
MoreBatchesInclusive(start, n) == start + batchSize <= n

\* i + batchSize < posts.length: a pause follows the batch
MoreBatches(start, n) == start + batchSize < n

\* the positions of the batch that starts after position start
BatchPositions(start, n) == (start + 1)..BatchEnd(start, n)

\* BatchSettled with Promise.race for Promise.all: one resolved promise is enough
BatchSettledAny(f, start, n) ==
    \E k \in (start + 1)..Min(start + batchSize, n) : f[k] \notin {"idle", "inflight"}

\* await Promise.all(...): every promise of the batch has resolved
BatchSettled(f, start, n) ==
    \A k \in BatchPositions(start, n) : f[k] \notin {"idle", "inflight"}

\* a slot of Promise.all's values that no promise has filled yet
Hole ==
    [title |-> NULL, url |-> NULL, date |-> NULL, rawDate |-> NULL,
     excerpt |-> UNDEFINED, category |-> UNDEFINED, readTime |-> UNDEFINED]

\* the values of Promise.all when the batch after position start is issued
EmptyBatch(start, n) == [j \in 1..(BatchEnd(start, n) - start) |-> Hole]

\* batch.map(post => this.enrichPostData(post)): the fetches of one batch
\* are issued together
IssueBatch(f, start, n) ==
    [k \in 1..n |-> IF k \in BatchPositions(start, n) THEN "inflight" ELSE f[k]]

\* InitBlogPage with initCategoryFilter called before renderPosts: the click
\* listeners are set although renderPosts threw
InitBlogPageListenersFirst(ps) ==
    LET r == renderPosts(ps, currentCategory)
        grid == IF ps = <<>> THEN showError(NoPostsMessage)
                ELSE IF r.threw THEN showError(FailedMessage)
                ELSE r.grid
    IN  /\ postsGrid' = grid
        /\ gridLog' = Append(gridLog, Rendering(grid))
        /\ featured' = IF ps = <<>> THEN featured
                       ELSE renderFeaturedArticle(ps[1], ps).content
        /\ chartBars' = IF ps = <<>> THEN chartBars
                        ELSE renderFeaturedArticle(ps[1], ps).chart
        /\ listeners' = (ps # <<>>)
        /\ UNCHANGED newsGrid

\* the rest of init once fetchAllPosts has returned, this.posts being ps
InitBlogPage(ps) ==
    LET r == renderPosts(ps, currentCategory)
        grid == IF ps = <<>> THEN showError(NoPostsMessage)
                ELSE IF r.threw THEN showError(FailedMessage)
                ELSE r.grid
    IN  /\ postsGrid' = grid
        /\ gridLog' = Append(gridLog, Rendering(grid))
        /\ featured' = IF ps = <<>> THEN featured
                       ELSE renderFeaturedArticle(ps[1], ps).content
        /\ chartBars' = IF ps = <<>> THEN chartBars
                        ELSE renderFeaturedArticle(ps[1], ps).chart
        /\ listeners' = (ps # <<>> /\ ~r.threw)
        /\ UNCHANGED newsGrid

\* the rest of initHomepage once fetchAllPosts has returned
InitHomepage(ps) ==
    /\ newsGrid' = IF ps = <<>> THEN newsGrid ELSE renderHomepageBlogs(ps, HomepageCount)
    /\ UNCHANGED <<postsGrid, gridLog, featured, chartBars, listeners>>

\* fetchAllPosts returns with this.posts = ps and the initializer runs to its end
ReturnToInitializer(ps) ==
    /\ pc' = "done"
    /\ IF page = "blog" THEN InitBlogPage(ps) ELSE InitHomepage(ps)

\* DOMContentLoaded: init shows the loading state (blog page only), then
\* fetchAllPosts and fetchPostsFromBlog run up to the fetch of the index page
Start ==
    /\ pc = "ready"
    /\ pc' = "index"
    /\ indexFetch' = "inflight"
    /\ IF page = "blog"
       THEN postsGrid' = showLoading /\ gridLog' = Append(gridLog, Rendering(showLoading))
       ELSE UNCHANGED <<postsGrid, gridLog>>
    /\ UNCHANGED <<page, indexItems, engineReadsNames, clockYear, failuresLeft, fetches,
                   fetchedPosts, batchStart, enrichedBatch, enrichedPosts, posts,
                   categories, currentCategory, featured, chartBars, newsGrid, listeners,
                   uncaught, batchLog, pauses>>
    /\ UNCHANGED <<statsVars, dateVars, formatVars, includerVars>>

\* the fetch of the index page fails (rejects, or answers with a non-success
\* status): fetchPostsFromBlog rethrows, fetchAllPosts catches and returns []
IndexFails(outcome) ==
    /\ pc = "index"
    /\ indexFetch' = outcome
    /\ ReturnToInitializer(posts)
    /\ UNCHANGED <<page, indexItems, engineReadsNames, clockYear, failuresLeft, fetches,
                   fetchedPosts, batchStart, enrichedBatch, enrichedPosts, posts,
                   categories, currentCategory, uncaught, batchLog, pauses>>
    /\ UNCHANGED <<statsVars, dateVars, formatVars, includerVars>>

\* the index page arrives: it is scraped and sorted; fetchAllPosts returns []
\* for no posts and issues the first batch otherwise
IndexArrives ==
    /\ pc = "index"
    /\ indexFetch' = "ok"
    /\ \E sorted \in fetchPostsFromBlog(indexItems, engineReadsNames) :
          IF sorted = <<>>
          THEN /\ ReturnToInitializer(posts)
               /\ UNCHANGED <<fetches, fetchedPosts, enrichedBatch, batchLog>>
          ELSE /\ fetchedPosts' = sorted
               /\ fetches' = IssueBatch([k \in 1..Len(sorted) |-> "idle"], 0, Len(sorted))
               /\ enrichedBatch' = EmptyBatch(0, Len(sorted))
               /\ batchLog' = Append(batchLog, BatchEnd(0, Len(sorted)))
               /\ pc' = "batch"
               /\ UNCHANGED <<postsGrid, gridLog, featured, chartBars, newsGrid, listeners>>
    /\ UNCHANGED <<page, indexItems, engineReadsNames, clockYear, failuresLeft, batchStart,
                   enrichedPosts, posts, categories,
                   currentCategory, uncaught, pauses>>
    /\ UNCHANGED <<statsVars, dateVars, formatVars, includerVars>>

\* EnrichSettles with each value stored as it arrives, in the first free slot
EnrichSettlesInArrivalOrder(k, outcome) ==
    /\ pc = "batch"
    /\ k \in DOMAIN fetches
    /\ fetches[k] = "inflight"
    /\ outcome # "ok" => failuresLeft > 0
    /\ failuresLeft' = IF outcome = "ok" THEN failuresLeft ELSE failuresLeft - 1
    /\ fetches' = [fetches EXCEPT ![k] = outcome]
    /\ LET free == {j \in DOMAIN enrichedBatch : enrichedBatch[j] = Hole}
           slot == CHOOSE j \in free : \A h \in free : j <= h
       IN  enrichedBatch' =
              [enrichedBatch EXCEPT ![slot] =
                  enrichPostData(fetchedPosts[k], outcome, PostPageOf(fetchedPosts[k].url))]
    /\ UNCHANGED <<page, indexItems, engineReadsNames, clockYear, pc, indexFetch,
                   fetchedPosts, batchStart, enrichedPosts, posts, categories,
                   currentCategory, postsGrid, featured, chartBars, newsGrid, listeners,
                   uncaught, gridLog, batchLog, pauses>>
    /\ UNCHANGED <<statsVars, dateVars, formatVars, includerVars>>

\* the fetch of the post at position k ends with outcome, and enrichPostData
\* resolves: Promise.all keeps the value at the position of its request
EnrichSettles(k, outcome) ==
    /\ pc = "batch"
    /\ k \in DOMAIN fetches
    /\ fetches[k] = "inflight"
    /\ outcome # "ok" => failuresLeft > 0
    /\ failuresLeft' = IF outcome = "ok" THEN failuresLeft ELSE failuresLeft - 1
    /\ fetches' = [fetches EXCEPT ![k] = outcome]
    /\ enrichedBatch' =
          [enrichedBatch EXCEPT ![k - batchStart] =
              enrichPostData(fetchedPosts[k], outcome, PostPageOf(fetchedPosts[k].url))]
    /\ UNCHANGED <<page, indexItems, engineReadsNames, clockYear, pc, indexFetch,
                   fetchedPosts, batchStart, enrichedPosts, posts, categories,
                   currentCategory, postsGrid, featured, chartBars, newsGrid, listeners,
                   uncaught, gridLog, batchLog, pauses>>
    /\ UNCHANGED <<statsVars, dateVars, formatVars, includerVars>>

\* Promise.all of the batch resolves: its values are appended; then either
\* the pause before the next batch starts, or fetchAllPosts stores the posts
\* and their categories and returns
BatchCompletes ==
    /\ pc = "batch"
    /\ BatchSettled(fetches, batchStart, Len(fetchedPosts))
    /\ LET all == enrichedPosts \o enrichedBatch IN
       /\ enrichedPosts' = all
       /\ enrichedBatch' = <<>>
       /\ IF MoreBatches(batchStart, Len(fetchedPosts))
          THEN /\ pc' = "delay"
               /\ pauses' = pauses + 1
               /\ UNCHANGED <<posts, categories, postsGrid, gridLog, featured, chartBars,
                              newsGrid, listeners>>
          ELSE /\ posts' = all
               /\ categories' = categories \cup {all[k].category : k \in 1..Len(all)}
               /\ ReturnToInitializer(all)
               /\ UNCHANGED pauses
    /\ UNCHANGED <<page, indexItems, engineReadsNames, clockYear, failuresLeft, indexFetch,
                   fetches, fetchedPosts, batchStart, currentCategory, uncaught,
                   batchLog>>
    /\ UNCHANGED <<statsVars, dateVars, formatVars, includerVars>>

\* the inter-batch timer fires: the loop moves on and issues the next batch
DelayElapses ==
    /\ pc = "delay"
    /\ batchStart' = batchStart + batchSize
    /\ fetches' = IssueBatch(fetches, batchStart + batchSize, Len(fetchedPosts))
    /\ enrichedBatch' = EmptyBatch(batchStart + batchSize, Len(fetchedPosts))
    /\ batchLog' = Append(batchLog,
                          BatchEnd(batchStart + batchSize, Len(fetchedPosts))
                            - (batchStart + batchSize))
    /\ pc' = "batch"
    /\ UNCHANGED <<page, indexItems, engineReadsNames, clockYear, failuresLeft, indexFetch,
                   fetchedPosts, enrichedPosts, posts, categories,
                   currentCategory, postsGrid, featured, chartBars, newsGrid, listeners,
                   uncaught, gridLog, pauses>>
    /\ UNCHANGED <<statsVars, dateVars, formatVars, includerVars>>

\* ClickCategory with the pages of the posts fetched again before the grid
\* is rendered
ClickCategoryRefetching(c) ==
    /\ listeners
    /\ currentCategory' = c
    /\ fetches' = [k \in DOMAIN fetches |-> "inflight"]
    /\ LET r == renderPosts(posts, c) IN
       /\ postsGrid' = IF r.threw THEN postsGrid ELSE r.grid
       /\ uncaught' = (uncaught \/ r.threw)
    /\ UNCHANGED <<page, indexItems, engineReadsNames, clockYear, failuresLeft, pc,
                   indexFetch, fetchedPosts, batchStart, enrichedBatch,
                   enrichedPosts, posts, categories, featured, chartBars, newsGrid,
                   listeners, gridLog, batchLog, pauses>>
    /\ UNCHANGED <<statsVars, dateVars, formatVars, includerVars>>

\* a click on the category button of category c (initCategoryFilter)
ClickCategory(c) ==
    /\ listeners
    /\ currentCategory' = c
    /\ LET r == renderPosts(posts, c) IN
       /\ postsGrid' = IF r.threw THEN postsGrid ELSE r.grid
       /\ uncaught' = (uncaught \/ r.threw)
    /\ UNCHANGED <<page, indexItems, engineReadsNames, clockYear, failuresLeft, pc,
                   indexFetch, fetches, fetchedPosts, batchStart, enrichedBatch,
                   enrichedPosts, posts, categories, featured, chartBars, newsGrid,
                   listeners, gridLog, batchLog, pauses>>
    /\ UNCHANGED <<statsVars, dateVars, formatVars, includerVars>>

Next ==
    \/ Start
    \/ \E outcome \in {"http_error", "net_error"} : IndexFails(outcome)
    \/ IndexArrives
    \/ \E k \in 1..Len(fetches), outcome \in {"ok", "http_error", "net_error"} :
          EnrichSettles(k, outcome)
    \/ BatchCompletes
    \/ DelayElapses
    \/ \E c \in ButtonCategories : ClickCategory(c)

Spec == Init /\ [][Next]_vars

\* the date-ordering specification: index pages whose posts carry every kind
\* of date text, read by engines that do and do not read "Month D, YYYY"
InitSort ==
    /\ NoDateCall
    /\ NoFormatCall
    /\ NoIncluder
    /\ projectsLinks = <<>>
    /\ StatsLoaderInit("idle")
    /\ page = "blog"
    /\ indexItems \in SortPages
    /\ engineReadsNames \in BOOLEAN
    /\ clockYear = 2026
    /\ failuresLeft = 0
    /\ BlogLoaderInit

\* the scraping and enrichment specification: every kind of list item, and
\* post pages with excerpts around the length kept
InitPosts ==
    /\ NoDateCall
    /\ NoFormatCall
    /\ NoIncluder
    /\ projectsLinks = <<>>
    /\ StatsLoaderInit("idle")
    /\ page = "blog"
    /\ indexItems \in ScrapePages
    /\ engineReadsNames = TRUE
    /\ clockYear = 2026
    /\ failuresLeft = 0
    /\ BlogLoaderInit

NextSort ==
    \/ Start
    \/ IndexArrives
    \/ \E k \in 1..Len(fetches) : EnrichSettles(k, "ok")
    \/ BatchCompletes

SpecSort == InitSort /\ [][NextSort]_vars

SpecPosts == InitPosts /\ [][NextSort]_vars

\* ------------------------------------------------------------------------
\* GitHubStatsLoader: init and fetchAllStats
\* ------------------------------------------------------------------------

\* fetchAllStats returns { stars, forks } and init renders them
RenderTotals(stars, forks) ==
    /\ stats' = [returned |-> TRUE, stars |-> stars, forks |-> forks]
    /\ statsGrid' = renderStats([stars |-> stars, forks |-> forks])
    /\ statsPc' = "done"

\* DOMContentLoaded: init shows the loading tiles; fetchAllStats finds
\* this.repos empty and extractGitHubRepos fetches projects.html
StatsStart ==
    /\ statsPc = "ready"
    /\ statsGrid' = showStatsLoading
    /\ projectsFetch' = "inflight"
    /\ statsPc' = "projects"
    /\ UNCHANGED <<projectsLinks, repos, lookups, totalStars, totalForks, stats,
                   extractLog, lookupLog>>
    /\ UNCHANGED <<blogVars, dateVars, formatVars, includerVars>>

\* ProjectsFails with the error of extractGitHubRepos reaching init, whose
\* catch block shows the error tiles
ProjectsFailsPropagates(outcome) ==
    /\ statsPc = "projects"
    /\ projectsFetch' = outcome
    /\ extractLog' = Append(extractLog, [outcome |-> outcome, value |-> <<>>])
    /\ statsGrid' = showStatsError
    /\ statsPc' = "done"
    /\ UNCHANGED <<projectsLinks, repos, lookups, totalStars, totalForks, stats, lookupLog>>
    /\ UNCHANGED <<blogVars, dateVars, formatVars, includerVars>>

\* the fetch of projects.html fails: extractGitHubRepos catches and returns
\* [], this.repos stays empty and fetchAllStats returns { stars: 0, forks: 0 }
ProjectsFails(outcome) ==
    /\ statsPc = "projects"
    /\ projectsFetch' = outcome
    /\ extractLog' = Append(extractLog, [outcome |-> outcome, value |-> <<>>])
    /\ RenderTotals(0, 0)
    /\ UNCHANGED <<projectsLinks, repos, lookups, totalStars, totalForks, lookupLog>>
    /\ UNCHANGED <<blogVars, dateVars, formatVars, includerVars>>

\* projects.html arrives: its repositories are extracted; with none
\* fetchAllStats returns zeros, otherwise every lookup is issued at once
ProjectsArrives ==
    /\ statsPc = "projects"
    /\ projectsFetch' = "ok"
    /\ repos' = extractGitHubRepos(projectsLinks)
    /\ extractLog' = Append(extractLog, [outcome |-> "ok", value |-> repos'])
    /\ IF repos' = <<>>
       THEN RenderTotals(0, 0) /\ UNCHANGED lookups
       ELSE /\ lookups' = [k \in 1..Len(repos') |-> [state |-> "inflight", stat |-> NoStats]]
            /\ statsPc' = "lookups"
            /\ UNCHANGED <<statsGrid, stats>>
    /\ UNCHANGED <<projectsLinks, totalStars, totalForks, lookupLog>>
    /\ UNCHANGED <<blogVars, dateVars, formatVars, includerVars>>

\* the lookup of the repository at position k ends with outcome; were its
\* promise to reject, Promise.all would reject and init would show the error tiles
LookupSettles(k, outcome) ==
    /\ statsPc = "lookups"
    /\ k \in DOMAIN lookups
    /\ lookups[k].state = "inflight"
    /\ LET stat == fetchRepoStats(repos[k], outcome, ApiData(repos[k])) IN
       /\ lookups' = [lookups EXCEPT ![k] = [state |-> outcome, stat |-> stat]]
       /\ IF stat.threw
          THEN statsGrid' = showStatsError /\ statsPc' = "done"
          ELSE UNCHANGED <<statsGrid, statsPc>>
    /\ lookupLog' = Append(lookupLog, k)
    /\ UNCHANGED <<projectsLinks, projectsFetch, repos, totalStars, totalForks,
                   stats, extractLog>>
    /\ UNCHANGED <<blogVars, dateVars, formatVars, includerVars>>

\* Promise.all of the lookups resolves: the totals are summed, stored and rendered
LookupsComplete ==
    /\ statsPc = "lookups"
    /\ \A k \in DOMAIN lookups : lookups[k].state # "inflight"
    /\ LET results == [k \in 1..Len(lookups) |-> lookups[k].stat] IN
       /\ totalStars' = SumStats(results, "stars")
       /\ totalForks' = SumStats(results, "forks")
       /\ RenderTotals(SumStats(results, "stars"), SumStats(results, "forks"))
    /\ UNCHANGED <<projectsLinks, projectsFetch, repos, lookups, extractLog, lookupLog>>
    /\ UNCHANGED <<blogVars, dateVars, formatVars, includerVars>>

\* a further call of extractGitHubRepos on the loaded page, from its fetch of
\* projects.html to its return: this.repos is replaced when the page arrives
ExtractAgain(outcome) ==
    /\ statsPc = "done"
    /\ Len(extractLog) < MaxExtractCalls
    /\ IF outcome = "ok"
       THEN /\ repos' = extractGitHubRepos(projectsLinks)
            /\ extractLog' = Append(extractLog, [outcome |-> "ok", value |-> repos'])
       ELSE /\ extractLog' = Append(extractLog, [outcome |-> outcome, value |-> <<>>])
            /\ UNCHANGED repos
    /\ UNCHANGED <<projectsLinks, statsPc, projectsFetch, lookups, totalStars,
                   totalForks, statsGrid, stats, lookupLog>>
    /\ UNCHANGED <<blogVars, dateVars, formatVars, includerVars>>

NextStats ==
    \/ StatsStart
    \/ \E outcome \in {"http_error", "net_error"} : ProjectsFails(outcome)
    \/ ProjectsArrives
    \* a lookup ends in success, HTTP 404, another non-success status, a
    \* network error, or a body that is no JSON
    \/ \E k \in 1..Len(lookups),
          outcome \in {"ok", "not_found", "http_error", "net_error", "json_error"} :
          LookupSettles(k, outcome)
    \/ LookupsComplete
    \/ \E outcome \in {"ok", "http_error", "net_error"} : ExtractAgain(outcome)

\* the homepage's statistics widget alone, the blog section left unloaded
InitStats ==
    /\ NoDateCall
    /\ NoFormatCall
    /\ NoIncluder
    /\ projectsLinks \in ProjectsPages
    /\ StatsLoaderInit("ready")
    /\ page = "home"
    /\ indexItems = <<>>
    /\ engineReadsNames = TRUE
    /\ clockYear = 2026
    /\ failuresLeft = 0
    /\ BlogLoaderInit

SpecStats == InitStats /\ [][NextStats]_vars

\* ------------------------------------------------------------------------
\* BlogLoader.parseDateString called on its own
\* ------------------------------------------------------------------------

\* the arguments of the calls: null, texts of one and two tokens that no
\* engine reads as a date, the empty text, and the texts of three tokens:
\* a month name, an abbreviation or a word that names no month; a day with
\* and without its comma, with a leading zero, or a day of no month; a year
DateArguments ==
    LET MonthWords == {<<"J","a","n">>, <<"J","a","n","u","a","r","y">>, <<"m","a","y">>,
                       <<"S","e","p">>, <<"D","e","c">>, <<"F","o","o">>}
        DayTokens == {<<"7",",">>, <<"0","7",",">>, <<"7">>, <<"4","5",",">>}
        YearTokens == {<<"2","0","2","5">>, <<"2","0","2","4">>}
        ThreeTokenTexts ==
            {w \o <<" ">> \o d \o <<" ">> \o y :
                w \in MonthWords, d \in DayTokens, y \in YearTokens}
        ShortTexts == {<<"s","o","o","n">>, <<"t","o"," ","c","o","m","e">>, <<>>}
    IN  ThreeTokenTexts \cup ShortTexts \cup {NULL}

\* the value of normalized while the call has not returned
Pending == <<"pending">>

\* parseDateString(rawText) returns
ParseDate ==
    /\ normalized = Pending
    /\ normalized' = parseDateString(rawText, engineReadsNames)
    /\ UNCHANGED <<rawText, blogVars, statsVars, formatVars, includerVars>>

\* one call of parseDateString on a loader that has fetched nothing
InitDates ==
    /\ NoFormatCall
    /\ NoIncluder
    /\ rawText \in DateArguments
    /\ normalized = Pending
    /\ projectsLinks = <<>>
    /\ StatsLoaderInit("idle")
    /\ page = "blog"
    /\ indexItems = <<>>
    /\ engineReadsNames \in BOOLEAN
    /\ clockYear = 2026
    /\ failuresLeft = 0
    /\ BlogLoaderInit

SpecDates == InitDates /\ [][ParseDate]_vars

\* ------------------------------------------------------------------------
\* GitHubStatsLoader.formatNumber called on its own
\* ------------------------------------------------------------------------

\* Width of each range of totals that is formatted.
MaxOffset == 60

\* the totals formatted: ranges around the thresholds 1,000 and 1,000,000,
\* with totals half-way between two tenths
FormatArguments ==
    {low + k : low \in {0, 950, 1000, 1450, 12300, 999900, 1000000, 1949950},
               k \in 0..MaxOffset}

\* formatNumber(fmtInput) returns
FormatOne ==
    /\ fmtOutput = Pending
    /\ fmtOutput' = formatNumber(fmtInput)
    /\ UNCHANGED <<fmtInput, blogVars, statsVars, dateVars, includerVars>>

\* one call of formatNumber on a widget that has fetched nothing
InitFormat ==
    /\ fmtInput \in FormatArguments
    /\ fmtOutput = Pending
    /\ NoDateCall
    /\ NoIncluder
    /\ projectsLinks = <<>>
    /\ StatsLoaderInit("idle")
    /\ page = "home"
    /\ indexItems = <<>>
    /\ engineReadsNames = TRUE
    /\ clockYear = 2026
    /\ failuresLeft = 0
    /\ BlogLoaderInit

SpecFormat == InitFormat /\ [][FormatOne]_vars

\* ------------------------------------------------------------------------
\* The partial includer: the DOMContentLoaded handler
\* ------------------------------------------------------------------------

\* the handler looks the containers up and issues the fetches
IncluderStart ==
    /\ headerFetch = "idle"
    /\ footerFetch = "idle"
    /\ headerFetch' = IF hasHeader THEN "inflight" ELSE "none"
    /\ footerFetch' = IF hasFooter THEN "inflight" ELSE "none"
    /\ UNCHANGED <<pathname, fragmentLinks, hasInitNav, hasHeader, hasFooter,
                   headerContent, footerContent, navLinks, headerSteps, surfaced>>
    /\ UNCHANGED <<blogVars, statsVars, dateVars, formatVars>>

\* the fetch of partials/header.html settles and loadHeader's handlers run
HeaderSettles(outcome) ==
    /\ headerFetch = "inflight"
    /\ headerFetch' = outcome
    /\ IF outcome = "net_error"
       THEN UNCHANGED <<headerContent, navLinks, headerSteps>>
       ELSE LET html == ResponseText(outcome, [kind |-> "fragment", links |-> fragmentLinks])
                links == IF hasInitNav THEN initNav(html.links) ELSE html.links
            IN  /\ headerContent' = html
                /\ navLinks' = setActiveNavLink(links, pathname)
                /\ headerSteps' = <<"replace">>
                                  \o (IF hasInitNav THEN <<"initNav">> ELSE <<>>)
                                  \o <<"mark">>
    /\ UNCHANGED <<pathname, fragmentLinks, hasInitNav, hasHeader, hasFooter,
                   footerFetch, footerContent, surfaced>>
    /\ UNCHANGED <<blogVars, statsVars, dateVars, formatVars>>

\* the fetch of partials/footer.html settles and loadFooter's handlers run
FooterSettles(outcome) ==
    /\ footerFetch = "inflight"
    /\ footerFetch' = outcome
    /\ IF outcome = "net_error"
       THEN UNCHANGED footerContent
       ELSE footerContent' = ResponseText(outcome, [kind |-> "fragment", links |-> <<>>])
    /\ UNCHANGED <<pathname, fragmentLinks, hasInitNav, hasHeader, hasFooter,
                   headerFetch, headerContent, navLinks, headerSteps, surfaced>>
    /\ UNCHANGED <<blogVars, statsVars, dateVars, formatVars>>

NextIncluder ==
    \/ IncluderStart
    \/ \E outcome \in {"ok", "http_error", "net_error"} : HeaderSettles(outcome)
    \/ \E outcome \in {"ok", "http_error", "net_error"} : FooterSettles(outcome)

\* a document about to fire DOMContentLoaded, without blog or statistics
InitIncluder ==
    LET BlogHtml == <<"b","l","o","g",".","h","t","m","l">>
        \* the paths of the documents
        Pathnames ==
            {<<"/">>, <<"/">> \o IndexHtml, <<"/">> \o BlogHtml, <<"/","d","/">>,
             <<"/","d","/">> \o BlogHtml}
        \* the href and the class of a .nav-link as the fragment is written
        NavLinkMarkup ==
            [href : {IndexHtml, BlogHtml, <<"/">> \o BlogHtml, NULL}, active : BOOLEAN]
    IN
    /\ pathname \in Pathnames
    /\ fragmentLinks \in SeqsUpTo(NavLinkMarkup, MaxNavLinks)
    /\ hasInitNav \in BOOLEAN
    /\ hasHeader \in BOOLEAN
    /\ hasFooter \in BOOLEAN
    /\ headerFetch = "idle"
    /\ footerFetch = "idle"
    /\ headerContent = Placeholder
    /\ footerContent = Placeholder
    /\ navLinks = <<>>
    /\ headerSteps = <<>>
    /\ surfaced = FALSE
    /\ NoDateCall
    /\ NoFormatCall
    /\ projectsLinks = <<>>
    /\ StatsLoaderInit("idle")
    /\ page = "home"
    /\ indexItems = <<>>
    /\ engineReadsNames = TRUE
    /\ clockYear = 2026
    /\ failuresLeft = 0
    /\ BlogLoaderInit

SpecIncluder == InitIncluder /\ [][NextIncluder]_vars

\* ------------------------------------------------------------------------
\* Properties of the blog pipeline (specification Spec)
\* ------------------------------------------------------------------------

Failed == {"http_error", "net_error"}

\* the positions whose fetch is in flight
InFlight == {k \in DOMAIN fetches : fetches[k] = "inflight"}

\* the positions whose fetch failed
FailedFetches == {k \in DOMAIN fetches : fetches[k] \in Failed}

\* post content is on the page: the featured article, post cards in the
\* posts grid, or news cards in the homepage grid
PostContentRendered ==
    \/ featured.kind = "featured"
    \/ postsGrid.kind = "posts"
    \/ newsGrid.kind = "news"

\* the value enrichPostData resolved with for the post at position k
ResultAt(k) ==
    IF k <= Len(enrichedPosts) THEN enrichedPosts[k] ELSE enrichedBatch[k - batchStart]

\* p and q are the same post: the fields of the skeleton agree
SamePost(p, q) ==
    /\ p.title = q.title /\ p.url = q.url /\ p.date = q.date /\ p.rawDate = q.rawDate

\* C1: in one load of the blog page, init shows the Loading state before any
\* fetch is issued, then writes exactly one terminal rendering (Rendered when
\* the index yields posts, EmptyRendered when it yields none, ErrorRendered
\* when the index fetch fails), and never shows Loading again.
C1_LoadingThenOneTerminalRendering ==
    page = "blog" =>
      /\ indexFetch # "idle" => (gridLog # <<>> /\ gridLog[1].kind = "loading")
      /\ Len(gridLog) <= 2
      /\ \A i \in 2..Len(gridLog) : gridLog[i].kind # "loading"
      /\ pc = "done" =>
            /\ Len(gridLog) = 2
            /\ postsGrid.kind # "loading"
            /\ IF indexFetch \in Failed
               THEN gridLog[2] = Rendering(showError(FailedMessage))
               ELSE IF fetchedPosts = <<>>
               THEN gridLog[2] = Rendering(showError(NoPostsMessage))
               ELSE gridLog[2].kind = "posts"

\* C2: no post content (featured article, posts grid, homepage news grid) is
\* rendered while a fetch of the run is in flight or still to be issued:
\* rendering happens only after the whole fetch sequence completed or failed.
C2_NoRenderingBeforeFetchesEnd ==
    PostContentRendered =>
      /\ indexFetch # "inflight"
      /\ \A k \in DOMAIN fetches : fetches[k] \notin {"idle", "inflight"}
      /\ pc = "done"

\* C2 witness: post content rendered after more than one batch of fetches
C2_Witness ==
    /\ PostContentRendered
    /\ Len(batchLog) >= 2
    /\ FailedFetches # {}

\* C3: at most 5 enrichment fetches are in flight at any time, and no fetch
\* of batch N+1 is issued until every fetch of batch N has settled and the
\* inter-batch delay has elapsed.
C3_BoundedBatches ==
    LET batchOf(k) == (k - 1) \div 5
        elapsed == IF pc = "delay" THEN pauses - 1 ELSE pauses
    IN  /\ Cardinality(InFlight) <= 5
        /\ \A j, k \in DOMAIN fetches :
              (batchOf(j) < batchOf(k) /\ fetches[k] # "idle")
                 => fetches[j] \notin {"idle", "inflight"}
        /\ \A k \in DOMAIN fetches : fetches[k] # "idle" => elapsed >= batchOf(k)

\* C3 witness: the five fetches of the second batch are all in flight
C3_Witness ==
    /\ Cardinality(InFlight) = 5
    /\ \A k \in InFlight : k > 5

\* C4: enriching n > 0 posts issues exactly ceil(n/5) batches, each of size 5
\* but possibly the last of size n - 5*(ceil(n/5)-1), and exactly ceil(n/5)-1
\* pauses: one between consecutive batches and none after the last.
C4_BatchesAndPauses ==
    LET n == Len(fetchedPosts)
        batches == (n + 4) \div 5
    IN  n > 0 =>
          /\ Len(batchLog) <= batches
          /\ \A b \in 1..Len(batchLog) :
                batchLog[b] = IF b < batches THEN 5 ELSE n - 5 * (batches - 1)
          /\ pauses = IF pc = "delay" THEN Len(batchLog) ELSE Len(batchLog) - 1
          /\ pc = "done" => (Len(batchLog) = batches /\ pauses = batches - 1)

\* C4 witness: twelve posts enriched in batches of 5, 5 and 2 with two pauses
C4_Witness ==
    /\ pc = "done"
    /\ Len(fetchedPosts) = 12
    /\ batchLog = <<5, 5, 2>>
    /\ pauses = 2

\* C5: whatever the order in which the fetches complete, the enriched posts
\* are in request order: every value gathered so far sits at the position of
\* its post in the date-sorted index list, and the stored list has the same
\* length and the same post at each position.
C5_ResultsInRequestOrder ==
    /\ \A k \in DOMAIN fetches :
          fetches[k] \notin {"idle", "inflight"} => SamePost(ResultAt(k), fetchedPosts[k])
    /\ Len(enrichedPosts) <= Len(fetchedPosts)
    /\ (pc = "done" /\ fetchedPosts # <<>>) =>
          /\ Len(posts) = Len(fetchedPosts)
          /\ \A k \in 1..Len(posts) : SamePost(posts[k], fetchedPosts[k])

\* C5 witness: a later post of the batch has completed before an earlier one
C5_Witness ==
    /\ pc = "batch"
    /\ Len(fetchedPosts) >= 3
    /\ fetches[1] = "inflight"
    /\ fetches[3] = "ok"
    /\ SamePost(enrichedBatch[3], fetchedPosts[3])
    /\ fetchedPosts[1].url # fetchedPosts[3].url

\* C7: when the fetch of the index page fails, the pipeline renders its error
\* state, on the blog page (init) and on the homepage (initHomepage) alike.
C7_IndexFailureRendersError ==
    (pc = "done" /\ indexFetch \in Failed) =>
      /\ page = "blog" => postsGrid.kind = "error"
      /\ page = "home" => newsGrid.kind = "error"

\* C9: a failed enrichment fetch of one post degrades only that post: when
\* the index fetch and every other enrichment succeed, the blog page ends in
\* the Rendered state, with every other post rendered with its own
\* enrichment, and never in the error state.
C9_OneFailureDegradesOnePost ==
    (/\ page = "blog" /\ pc = "done" /\ indexFetch = "ok"
     /\ Cardinality(FailedFetches) = 1) =>
      /\ gridLog[2].kind = "posts"
      /\ postsGrid.kind = "posts"
      /\ currentCategory = AllCategories =>
            \A k \in 2..Len(posts) :
               fetches[k] = "ok" =>
                  postsGrid.cards[k - 1] =
                     Card(EnrichFromPage(fetchedPosts[k], PostPageOf(fetchedPosts[k].url)))

\* C10: for every failure of a post's own page fetch (network error or
\* non-success status), enrichPostData returns the post with its skeleton
\* fields unchanged and with an excerpt, a category and a read time present.
C10_FailedEnrichmentHasDefaults ==
    \A k \in FailedFetches :
       /\ SamePost(ResultAt(k), fetchedPosts[k])
       /\ ResultAt(k).excerpt # UNDEFINED
       /\ ResultAt(k).category # UNDEFINED
       /\ ResultAt(k).readTime # UNDEFINED

\* ------------------------------------------------------------------------
\* Properties of the date ordering (specification SpecSort)
\* ------------------------------------------------------------------------

\* the post carries a normalized date: a YYYY-MM-DD text that names a day
HasNormalizedDate(post) ==
    /\ post.date # NULL
    /\ IsIsoShape(post.date)
    /\ ParseIso(post.date).valid

\* the posts of ps without a normalized date, in their order in ps
RECURSIVE UndatedOf(_)
UndatedOf(ps) ==
    IF ps = <<>> THEN <<>>
    ELSE (IF HasNormalizedDate(Head(ps)) THEN <<>> ELSE <<Head(ps).url>>)
           \o UndatedOf(Tail(ps))

\* ps is in descending order of normalized date with the undated posts last
NewestFirstUndatedLast(ps) ==
    \A i, j \in 1..Len(ps) :
       i < j =>
          /\ HasNormalizedDate(ps[j]) => HasNormalizedDate(ps[i])
          /\ (HasNormalizedDate(ps[i]) /\ HasNormalizedDate(ps[j])) =>
                TimeValue(ps[i].date) >= TimeValue(ps[j].date)

\* C6: once the index is scraped, the working set (the scraped list, then
\* the enriched list and this.posts) is sorted by normalized date, newest
\* first, every post without a normalized date after every dated post, and
\* the posts without a normalized date in the order the page lists them.
C6_SortedNewestFirstUndatedLast ==
    \A ws \in {fetchedPosts, enrichedPosts, posts} :
       /\ NewestFirstUndatedLast(ws)
       /\ (Len(ws) = Len(fetchedPosts) /\ indexFetch = "ok") =>
             UndatedOf(ws) = UndatedOf(ScrapeItems(indexItems, engineReadsNames))

\* ------------------------------------------------------------------------
\* Properties of the statistics widget (specification SpecStats)
\* ------------------------------------------------------------------------

\* C8: when the fetch of projects.html fails, GitHubStatsLoader.init ends in
\* the error state: the tiles show the placeholders of showError, never
\* numeric totals.
C8_ProjectsFailureShowsError ==
    (statsPc = "done" /\ projectsFetch \in Failed) => statsGrid = showStatsError

\* ------------------------------------------------------------------------
\* Properties of the categories (specification Spec)
\* ------------------------------------------------------------------------

\* the categories a post may carry
PostCategories == {Tutorials, Optimization, Deployment, Research}

\* C11: once fetchAllPosts has returned, every post of the working set has
\* a category among tutorials, optimization, deployment and research, and
\* this.categories holds only values of that set, whatever the outcome of
\* each enrichment fetch.
C11_CategoriesFromFixedSet ==
    pc = "done" =>
      /\ \A k \in DOMAIN posts : posts[k].category \in PostCategories
      /\ categories \subseteq PostCategories

\* ------------------------------------------------------------------------
\* Properties of parseDateString (specification SpecDates)
\* ------------------------------------------------------------------------

\* the general date parse rejects the text: new Date(text) is an Invalid Date
GeneralParseRejects(text) ==
    text = NULL \/ text = <<>> \/ ~NewDate(text, engineReadsNames).valid

\* the text is a valid Month Day, Year: three tokens, a month name or
\* abbreviation, a day of that month, a year of four digits
IsMonthDayYear(text) ==
    LET parts == splitWhitespace(text)
        dayTok == replaceFirst(parts[2], ",")
    IN  /\ Len(parts) = 3
        /\ MonthOfWord(parts[1]) # 0
        /\ dayTok # <<>> /\ AllDigits(dayTok)
        /\ Len(parts[3]) = 4 /\ AllDigits(parts[3])
        /\ ToNumber(dayTok) \in 1..DaysInMonth(ToNumber(parts[3]), MonthOfWord(parts[1]))

\* C12: parseDateString returns a YYYY-MM-DD text or null, and returns null
\* for a text that the general date parse rejects and that is no valid
\* Month Day, Year (absent text, fewer than three tokens, an unknown month).
C12_NullForUnparsableText ==
    normalized # Pending =>
      /\ normalized = NULL \/ IsIsoShape(normalized)
      /\ (GeneralParseRejects(rawText)
            /\ (rawText = NULL \/ ~IsMonthDayYear(rawText))) => normalized = NULL

\* ------------------------------------------------------------------------
\* Properties of extractGitHubRepos (specification SpecStats)
\* ------------------------------------------------------------------------

\* the non-empty segments of s between "/" from position i on
RECURSIVE SegmentsFrom(_, _)
SegmentsFrom(s, i) ==
    IF i > Len(s) THEN <<>>
    ELSE IF s[i] = "/" THEN SegmentsFrom(s, i + 1)
    ELSE <<SegmentFrom(s, i)>> \o SegmentsFrom(s, i + Len(SegmentFrom(s, i)))

\* the non-empty segments of the path that follows the host marker in href
PathSegments(href) ==
    LET at == CHOOSE i \in 1..Len(href) :
                  OccursAt(href, HostMarker, i)
                  /\ \A h \in 1..(i - 1) : ~OccursAt(href, HostMarker, h)
    IN  SegmentsFrom(href, at + Len(HostMarker))

\* the anchors of the page whose href contains the host marker
RepositoryAnchors == {i \in DOMAIN projectsLinks : includes(projectsLinks[i], HostMarker)}

\* the identifier owner/repo of an href with two path segments
IdentifierOf(href) == PathSegments(href)[1] \o <<"/">> \o PathSegments(href)[2]

\* C13: once projects.html is read, the identifiers extracted are those of
\* the anchors whose path after the host marker has exactly two non-empty
\* segments: an href with one segment or with three or more adds none.
C13_IdentifierIffTwoSegments ==
    projectsFetch = "ok" =>
       {repos[k] : k \in DOMAIN repos} =
          {IdentifierOf(projectsLinks[i]) :
              i \in {a \in RepositoryAnchors : Len(PathSegments(projectsLinks[a])) = 2}}

\* the first anchor of the page from which the identifier id is extracted
FirstAnchorOf(id) ==
    CHOOSE a \in DOMAIN projectsLinks :
        /\ includes(projectsLinks[a], HostMarker)
        /\ RepoOfLink(projectsLinks[a]) = <<id>>
        /\ \A b \in 1..(a - 1) :
              ~(includes(projectsLinks[b], HostMarker) /\ RepoOfLink(projectsLinks[b]) = <<id>>)

\* the calls of extractGitHubRepos that read the page
PageReads == {c \in DOMAIN extractLog : extractLog[c].outcome = "ok"}

Settled == {k \in DOMAIN lookups : lookups[k].state # "inflight"}

\* C15: fetchRepoStats never throws: it returns null on HTTP 404, on every
\* other non-success status and on a network or JSON error, and on success
\* the name, the star count and the fork count, a missing count being 0.
C15_LookupNeverThrows ==
    /\ lookups # <<>> => statsGrid # showStatsError
    /\ \A k \in Settled :
          LET stat == lookups[k].stat
              data == ApiData(repos[k])
          IN  /\ ~stat.threw
              /\ lookups[k].state # "ok" => stat = NoStats
              /\ lookups[k].state = "ok" =>
                    /\ stat.found
                    /\ stat.name = data.full_name
                    /\ stat.stars = (IF data.hasStars THEN data.stargazers_count ELSE 0)
                    /\ stat.forks = (IF data.hasForks THEN data.forks_count ELSE 0)

\* C15 witness: every failure of a lookup has returned null beside a
\* successful lookup whose JSON lacks the fork count
C15_Witness ==
    /\ \E k \in Settled : lookups[k].state = "ok" /\ ~ApiData(repos[k]).hasForks
                          /\ lookups[k].stat.forks = 0
    /\ \E k \in Settled : lookups[k].state \in {"not_found", "http_error", "net_error", "json_error"}
                          /\ lookups[k].stat = NoStats
    /\ statsPc = "done"

\* C16: with the repository list empty after extraction, fetchAllStats
\* returns {stars: 0, forks: 0} and no repository lookup is issued.
C16_NoRepositoriesNoLookups ==
    /\ repos = <<>> => lookups = <<>>
    /\ (statsPc = "done" /\ repos = <<>>) =>
          stats = [returned |-> TRUE, stars |-> 0, forks |-> 0]

\* C16 witness: a page whose anchors name no repository has been read and
\* the zeros returned
C16_Witness ==
    /\ statsPc = "done"
    /\ projectsFetch = "ok"
    /\ projectsLinks = <<HrefOwnerOnly, HrefElsewhere>>
    /\ repos = <<>>
    /\ stats.returned

\* the sum of a count over the lookups at the positions of K that returned
\* a value
RECURSIVE SumOver(_, _)
SumOver(K, field) ==
    IF K = {} THEN 0
    ELSE LET k == CHOOSE x \in K : TRUE
         IN  (IF lookups[k].stat.found THEN lookups[k].stat[field] ELSE 0)
               + SumOver(K \ {k}, field)

\* C17: fetchAllStats issues one lookup per distinct identifier, all of them
\* before any result is awaited, and returns the sums of the star and fork
\* counts of the lookups that returned a value, whatever the order in which
\* the lookups end; a null lookup adds 0.
C17_TotalsAreSumsOfLookups ==
    /\ statsPc = "lookups" =>
          /\ DOMAIN lookups = DOMAIN repos
          /\ \A i, j \in DOMAIN repos : i # j => repos[i] # repos[j]
    /\ (statsPc = "done" /\ lookups # <<>>) =>
          /\ stats.returned
          /\ stats.stars = SumOver(DOMAIN lookups, "stars")
          /\ stats.forks = SumOver(DOMAIN lookups, "forks")
          /\ totalStars = stats.stars /\ totalForks = stats.forks

\* C17 witness: of two lookups the second ended first, the first returned
\* null, and the totals are those of the second
C17_Witness ==
    /\ statsPc = "done"
    /\ Len(lookups) = 2
    /\ lookupLog = <<2, 1>>
    /\ ~lookups[1].stat.found /\ lookups[2].stat.found
    /\ stats.stars = lookups[2].stat.stars /\ stats.stars > 0

\* ------------------------------------------------------------------------
\* Properties of formatNumber (specification SpecFormat)
\* ------------------------------------------------------------------------

\* text has the shape of digits, a point, one digit and the suffix, with
\* from one to most digits before the point
HasScaledShape(text, suffix, most) ==
    LET n == Len(text) IN
    /\ n >= 4 /\ n <= most + 3
    /\ text[n] = suffix
    /\ IsDigit(text[n - 1])
    /\ text[n - 2] = "."
    /\ \A i \in 1..(n - 3) : IsDigit(text[i])

\* the number of tenths a text of that shape shows
TenthsShown(text) ==
    10 * ToNumber(SubSeq(text, 1, Len(text) - 3)) + DigitVal(text[Len(text) - 1])

\* C18: formatNumber(n) is the plain decimal text for n < 1000, n/1000 with
\* one decimal and K for 1000 <= n < 1,000,000, n/1,000,000 with one decimal
\* and M from 1,000,000 on; a K text has at most three digits before the point.
C18_FormatNumberShapes ==
    fmtOutput # Pending /\ fmtOutput # NULL =>
       IF fmtInput < 1000 THEN fmtOutput = ToDigits(fmtInput)
       ELSE IF fmtInput < 1000000
       THEN /\ HasScaledShape(fmtOutput, "K", 3)
            /\ 100 * TenthsShown(fmtOutput) - fmtInput \in -50..50
       ELSE /\ HasScaledShape(fmtOutput, "M", 3)
            /\ 100000 * TenthsShown(fmtOutput) - fmtInput \in -50000..50000

\* ------------------------------------------------------------------------
\* Properties of the partial includer (specification SpecIncluder)
\* ------------------------------------------------------------------------

FetchFailed(fetch) == fetch \in {"http_error", "net_error"}

\* C19: a container's content is replaced only when the fetch of its
\* fragment succeeds; when the fetch fails, by a network error or by a
\* response whose status is no success, the container stays as it was, no
\* error surfaces, and the other container is loaded all the same.
C19_ReplacedOnlyOnSuccess ==
    /\ FetchFailed(headerFetch) => headerContent = Placeholder
    /\ FetchFailed(footerFetch) => footerContent = Placeholder
    /\ headerFetch = "ok" => headerContent = [kind |-> "fragment", links |-> fragmentLinks]
    /\ footerFetch = "ok" => footerContent.kind = "fragment"
    /\ surfaced = FALSE

\* the final segment of a path: what follows its last "/"
FinalSegment(path) ==
    LET k == CHOOSE k \in 0..Len(path) :
                 /\ k = 0 \/ path[k] = "/"
                 /\ \A j \in (k + 1)..Len(path) : path[j] # "/"
    IN  SubSeq(path, k + 1, Len(path))

\* the href a link must have to be the active one
ActiveTarget ==
    IF FinalSegment(pathname) = <<>> THEN IndexHtml ELSE FinalSegment(pathname)

IsPostItem(li) ==
    /\ li.hasLink
    /\ \E i \in 1..Len(li.text) : li.text[i] # " "
    /\ toLowerCase(trim(li.text)) # <<"h","o","m","e">>
    /\ li.href # <<"/">>
    /\ \E i \in 1..(Len(li.href) - 9) :
          LET shape == [k \in 1..10 |-> IF IsDigit(li.href[i + k - 1]) THEN "d"
                                        ELSE li.href[i + k - 1]]
          IN  shape = <<"d","d","d","d","/","d","d","/","d","d">>

\* C21: fetchPostsFromBlog yields a post skeleton for a list item exactly
\* when the item has a link with text, the text is not the home label, the
\* target is not the bare root and the target holds a YYYY/MM/DD segment.
C21_SkeletonIffPostItem ==
    indexFetch = "ok" =>
       LET postItems == {k \in DOMAIN indexItems : IsPostItem(indexItems[k])}
       IN  /\ Len(fetchedPosts) = Cardinality(postItems)
           /\ \A k \in postItems :
                 \E j \in DOMAIN fetchedPosts :
                    /\ fetchedPosts[j].title = trim(indexItems[k].text)
                    /\ endsWith(fetchedPosts[j].url, indexItems[k].href)
           /\ \A j \in DOMAIN fetchedPosts :
                 \E k \in postItems :
                    /\ fetchedPosts[j].title = trim(indexItems[k].text)
                    /\ endsWith(fetchedPosts[j].url, indexItems[k].href)

\* the index page lists "My Post" at /2025/01/07/my-post with the span
\* "Jan 7, 2025", and "About" at /about: one skeleton, dated 2025-01-07
C21_Witness ==
    /\ indexFetch = "ok"
    /\ Len(indexItems) = 2
    /\ indexItems[1].href = <<"/","2","0","2","5","/","0","1","/","0","7","/","m","y","-","p","o","s","t">>
    /\ indexItems[2] = ItemAbout
    /\ Len(fetchedPosts) = 1
    /\ fetchedPosts[1].title = <<"M","y"," ","P","o","s","t">>
    /\ fetchedPosts[1].date = <<"2","0","2","5","-","0","1","-","0","7">>

\* the excerpt a post's page offers: its meta description, or else its first
\* paragraph without the blanks around it; empty when it offers none
SourceExcerpt(doc) ==
    IF doc.hasMeta /\ doc.metaContent # NULL /\ doc.metaContent # <<>>
    THEN doc.metaContent
    ELSE IF doc.paragraph # NULL THEN trim(doc.paragraph) ELSE <<>>

\* C22: a source excerpt of more than 200 characters is stored as its first
\* 200 characters and a 3-character ellipsis, 203 in all; one of at most 200
\* characters is stored unchanged; no stored excerpt exceeds 203 characters.
C22_ExcerptTruncation ==
    pc = "done" =>
       \A k \in DOMAIN posts :
          LET source == SourceExcerpt(PostPageOf(posts[k].url))
              stored == posts[k].excerpt
          IN  /\ Len(stored) <= 203
              /\ Len(source) > 200 =>
                    /\ stored = SubSeq(source, 1, 200) \o <<".", ".", ".">>
                    /\ Len(stored) = 203
              /\ (source # <<>> /\ Len(source) <= 200) => stored = source

\* the posts of an index page have been enriched from a page that offers a
\* meta description of 250 characters and a page whose paragraph has 200
C22_Witness ==
    /\ pc = "done"
    /\ \E k \in DOMAIN posts :
          /\ Len(SourceExcerpt(PostPageOf(posts[k].url))) = 250
          /\ Len(posts[k].excerpt) = 203
    /\ \E k \in DOMAIN posts :
          /\ Len(SourceExcerpt(PostPageOf(posts[k].url))) = 200
          /\ Len(posts[k].excerpt) = 200

\* the words of a text: one more than its runs of blanks
WordCount(text) ==
    1 + Cardinality({i \in 1..Len(text) :
                        text[i] = " " /\ (i = 1 \/ text[i - 1] # " ")})

\* the page of a post is read without an exception: it is not a page whose
\* meta description lacks its content and that has no paragraph
ReadsWell(doc) == ~(doc.hasMeta /\ doc.metaContent = NULL /\ doc.paragraph = NULL)

\* C27: the read time of a successfully enriched post is
\* max(3, ceil(wordCount(excerpt) / 200)) minutes on the stored excerpt,
\* never below 3, and with at most 203 characters always exactly 3.
C27_ReadTimeIsThreeMinutes ==
    pc = "done" =>
       \A k \in DOMAIN posts :
          ReadsWell(PostPageOf(posts[k].url)) =>
             LET words == WordCount(posts[k].excerpt)
                 minutes == IF (words + 199) \div 200 > 3
                            THEN (words + 199) \div 200 ELSE 3
             IN  /\ posts[k].readTime = ToDigits(minutes) \o <<" ","m","i","n"," ","r","e","a","d">>
                 /\ minutes = 3

\* a post with a stored excerpt of 203 characters reads "3 min read"
C27_Witness ==
    /\ pc = "done"
    /\ \E k \in DOMAIN posts :
          /\ Len(posts[k].excerpt) = 203
          /\ WordCount(posts[k].excerpt) > 20
          /\ posts[k].readTime = <<"3"," ","m","i","n"," ","r","e","a","d">>

\* a link target resolved against the host of the index page: an absolute
\* target as it is, a relative one as host, "/" and its path
ResolvedTarget(href) ==
    IF startsWith(href, <<"h","t","t","p",":","/","/">>) \/ startsWith(href, <<"h","t","t","p","s",":","/","/">>)
    THEN href
    ELSE BlogHost \o <<"/">> \o (IF startsWith(href, <<"/">>) THEN Tail(href) ELSE href)

\* C26: the url of every post skeleton is absolute: an absolute target kept
\* as it is, a relative target, with or without a leading slash, resolved
\* against the host of the index page.
C26_UrlsAreAbsolute ==
    indexFetch = "ok" =>
       \A j \in DOMAIN fetchedPosts :
          \E k \in DOMAIN indexItems :
             /\ indexItems[k].hasLink
             /\ fetchedPosts[j].title = trim(indexItems[k].text)
             /\ fetchedPosts[j].url = ResolvedTarget(indexItems[k].href)

\* the groups of keywords in their order, and the category of each
KeywordGroups ==
    << [category |-> Tutorials, keywords |-> {<<"t","u","t","o","r","i","a","l">>, <<"g","u","i","d","e">>, <<"h","o","w"," ","t","o">>}],
       [category |-> Optimization,
        keywords |-> {<<"o","p","t","i","m","i","z","a","t","i","o","n">>, <<"o","p","t","i","m","i","z","i","n","g">>, <<"p","e","r","f","o","r","m","a","n","c","e">>}],
       [category |-> Deployment,
        keywords |-> {<<"d","e","p","l","o","y","m","e","n","t">>, <<"d","e","p","l","o","y">>, <<"s","e","r","v","i","n","g">>, <<"m","o","b","i","l","e">>,
                      <<"a","n","d","r","o","i","d">>, <<"g","p","u">>}],
       [category |-> Research, keywords |-> {<<"r","e","s","e","a","r","c","h">>, <<"p","a","p","e","r">>, <<"s","t","u","d","y">>}] >>

\* the category of the first group with a keyword the title contains,
\* whatever the case of its letters; deployment when there is none
CategoryOfTitle(title) ==
    LET matches == {g \in DOMAIN KeywordGroups :
                       \E w \in KeywordGroups[g].keywords :
                          \E i \in 1..Len(title) :
                             /\ i + Len(w) - 1 <= Len(title)
                             /\ toLowerCase(SubSeq(title, i, i + Len(w) - 1)) = w}
    IN  IF matches = {} THEN Deployment
        ELSE KeywordGroups[CHOOSE g \in matches : \A h \in matches : g <= h].category

RemainingOfSelection ==
    LET Selected(post) ==
            currentCategory = AllCategories \/ post.category = currentCategory
    IN  IF posts = <<>> THEN <<>> ELSE SelectSeq(Tail(posts), Selected)

\* C24: the grid of renderPosts holds exactly the posts of the working set
\* other than the featured, first one whose category is the selected one
\* (all of them for "all"), in the order of the working set.
C24_GridShowsRemainingOfSelection ==
    (pc = "done" /\ postsGrid.kind = "posts") =>
       postsGrid.cards =
          [k \in 1..Len(RemainingOfSelection) |-> Card(RemainingOfSelection[k])]


\* C25: once the click listeners are registered every step is a click on a
\* category button; such a step sets the active category to a category of
\* the buttons and writes the grid rendered for it from the working set in
\* memory, issues no fetch (the fetch of the index page and the fetches of
\* the posts' pages stay as they are) and leaves the working set, its posts
\* and their order, as it is.
C25_ClickRendersFromMemory ==
    [][listeners =>
          /\ currentCategory' \in ButtonCategories
          /\ postsGrid' = renderPosts(posts, currentCategory').grid
          /\ indexFetch' = indexFetch
          /\ fetches' = fetches
          /\ fetchedPosts' = fetchedPosts
          /\ enrichedPosts' = enrichedPosts
          /\ posts' = posts]_vars

\* a click has selected a category and the grid shows a post of it
C25_Witness ==
    /\ listeners
    /\ currentCategory # AllCategories
    /\ postsGrid.kind = "posts"
    /\ postsGrid.cards # <<>>


\* the number of posts of the working set whose date lies in the year y
DatedIn(y) ==
    Cardinality({k \in 1..Len(posts) :
                    /\ posts[k].date \notin {NULL, UNDEFINED, <<>>}
                    /\ Len(posts[k].date) >= 4
                    /\ SubSeq(posts[k].date, 1, 4) = ToDigits(y)})

\* C28: the bar chart written by renderFeaturedArticle shows the number of
\* posts of the working set, the number of them dated in the current
\* calendar year and the number dated in the previous calendar year (the
\* two year bars in either order); the total is not zero and the width of
\* each year bar is a percentage between 0 and 100.
C28_ChartOfThisAndLastYear ==
    chartBars.kind = "chart" =>
       LET bars == chartBars.bars IN
       /\ bars[1].value = Len(posts)
       /\ \E i, j \in 2..3 :
             /\ i # j
             /\ bars[i].value = DatedIn(clockYear)
             /\ bars[j].value = DatedIn(clockYear - 1)
       /\ \A i \in 2..3 :
             /\ bars[i].width[2] # 0
             /\ 0 <= bars[i].width[1]
             /\ bars[i].width[1] <= 100 * bars[i].width[2]


====
